---- MODULE Spec2Model ----
(***************************************************************************)
(* A model of herbe.rt, the bancho server: the shared key/value store      *)
(* (session indices, session list, outbound queues, channels), the named   *)
(* locks, the login handshake, the packet splitter and dispatcher, and the *)
(* coroutines that run them.  Collections the source appends to and        *)
(* removes from (channels, members, spectators) are sequences.             *)
(***************************************************************************)
EXTENDS Integers, Sequences, FiniteSets, TLC

VARIABLES
    redis,      \* the key/value store: sessions:id/name/token, session_list, queues, channels:name
    locks,      \* the RedisLock keys currently held, each with its holder
    accounts,   \* the users table: id -> Account
    tasks,      \* the coroutines in flight: task id -> its position and locals
    clock,      \* time.time(), in whole seconds
    uuid,       \* how many uuid4 tokens generate_token has handed out
    resp,       \* the response of the request that completed last
    hist        \* observations of the run (what was appended, delivered, invoked)

vars == <<redis, locks, accounts, tasks, clock, uuid, resp, hist>>

(***************************************************************************)
(* Bounds of the model.                                                    *)
(***************************************************************************)
MaxOps == 4         \* queue operations started in one run of SpecQueue
MaxRequests == 3   \* requests started in one run of SpecLogin
MaxPackets == 2     \* frames in one batch
MaxTime == 2        \* the clock stops ticking here

Tasks == {"t1", "t2"}

None == [none |-> TRUE]
NoneInt == 0 - 1

(***************************************************************************)
(* Small helpers.                                                          *)
(***************************************************************************)
RECURSIVE SetToSeq(_)
SetToSeq(S) ==
    IF S = {} THEN <<>>
    ELSE LET m == CHOOSE x \in S : \A y \in S : x <= y
         IN <<m>> \o SetToSeq(S \ {m})

Range(s) == {s[i] : i \in 1..Len(s)}

RECURSIVE Concat(_)
Concat(ss) == IF ss = <<>> THEN <<>> ELSE Head(ss) \o Concat(Tail(ss))

\* a Redis hash: a function whose domain is the set of fields present
HGet(h, k) == IF k \in DOMAIN h THEN h[k] ELSE None
HSet(h, k, v) == [x \in (DOMAIN h) \cup {k} |-> IF x = k THEN v ELSE h[x]]
HDel(h, k) == [x \in (DOMAIN h) \ {k} |-> h[x]]

(***************************************************************************)
(* utils.make_safe_name: lower-case, spaces to underscores.  A name is a   *)
(* sequence of characters.                                                 *)
(***************************************************************************)
Lower(c) ==
    CASE c = "A" -> "a"
      [] c = "B" -> "b"
      [] c = "C" -> "c"
      [] OTHER -> c

make_safe_name(name) ==
    [i \in 1..Len(name) |-> IF Lower(name[i]) = " " THEN "_" ELSE Lower(name[i])]

(***************************************************************************)
(* RedisLock: a named lock, taken for a block and released when the block  *)
(* exits.  A lock key is free when nobody holds it.                        *)
(***************************************************************************)
LockKey(kind, id) == <<kind, id>>

LockFree(key) == \A l \in locks : l.key # key

LockAcquire(key, t) == locks \cup {[key |-> key, owner |-> t]}

LockRelease(key, t) == locks \ {[key |-> key, owner |-> t]}

(***************************************************************************)
(* The outbound queue of a user: one byte string per user id.  A missing   *)
(* key and an empty string read the same (`if not redis_data`).            *)
(***************************************************************************)
RedisAppendFront(q, data) == data \o q

RedisAppend(q, data) == q \o data

RedisDelete(q) == <<>>

\* usecases.sessions.enqueue_data as one step (the lock makes it atomic
\* with respect to every other queue operation on the same user)
EnqueueData(r, user_id, data) ==
    [r EXCEPT !.queues[user_id] = RedisAppend(@, data)]

RECURSIVE EnqueueAll(_, _, _)
EnqueueAll(r, ids, data) ==
    IF ids = <<>> THEN r
    ELSE EnqueueAll(EnqueueData(r, Head(ids), data), Tail(ids), data)

\* usecases.sessions.dequeue_data as one step: the drained store
DequeueData(r, user_id) ==
    [r EXCEPT !.queues[user_id] = RedisDelete(@)]

(***************************************************************************)
(* Privileges are a bit mask in the source; `privileges & FLAG` is         *)
(* membership of the flag in the set of bits that are on.                  *)
(***************************************************************************)
HasPriv(privileges, flag) == flag \in privileges

NameAl == <<"A", "l">>
NameBo == <<"B", " ", "o">>
NameCy == <<"C", "y">>
NameNobody == <<"z">>

AccountIds == {1, 2, 3}

\* the users table the server starts with: Al is public, B o is restricted
\* (no USER_PUBLIC) and still pending verification, Cy is a moderator
InitAccounts ==
    [id \in AccountIds |->
        [id |-> id,
         name |-> CASE id = 1 -> NameAl [] id = 2 -> NameBo [] OTHER -> NameCy,
         privileges |->
            CASE id = 1 -> {"USER_PUBLIC", "USER_NORMAL"}
              [] id = 2 -> {"USER_NORMAL", "USER_PENDING_VERIFICATION"}
              [] OTHER -> {"USER_PUBLIC", "USER_NORMAL", "ADMIN_MANAGE_USERS"},
         password |-> "good",
         friends |-> <<>>,
         silence_end |-> 0,
         freeze_end |-> 0]]

\* repositories.accounts.fetch_by_id / fetch_by_name
AccountById(a, id) == IF id \in DOMAIN a THEN a[id] ELSE None

AccountByName(a, name) ==
    LET hits == {id \in DOMAIN a : make_safe_name(a[id].name) = make_safe_name(name)}
    IN IF hits = {} THEN None ELSE a[CHOOSE id \in hits : TRUE]

(***************************************************************************)
(* Session: the Account's fields plus the runtime fields.  Session.dict    *)
(* keeps the runtime fields only; a fetch puts the account's fields back.  *)
(***************************************************************************)
SessionDict(s) ==
    [id |-> s.id,
     token |-> s.token,
     login_time |-> s.login_time,
     status |-> s.status,
     channels |-> s.channels,
     spectators |-> s.spectators,
     spectating |-> s.spectating,
     match |-> s.match,
     friend_only_dms |-> s.friend_only_dms,
     in_lobby |-> s.in_lobby]

Rehydrate(d, acc) ==
    [id |-> acc.id,
     name |-> acc.name,
     privileges |-> acc.privileges,
     password |-> acc.password,
     friends |-> acc.friends,
     silence_end |-> acc.silence_end,
     freeze_end |-> acc.freeze_end,
     token |-> d.token,
     login_time |-> d.login_time,
     status |-> d.status,
     channels |-> d.channels,
     spectators |-> d.spectators,
     spectating |-> d.spectating,
     match |-> d.match,
     friend_only_dms |-> d.friend_only_dms,
     in_lobby |-> d.in_lobby]

StatusDefault == [action |-> 0]

NewSession(acc, token, now, friend_only_dms) ==
    Rehydrate(
        [token |-> token,
         login_time |-> now,
         status |-> StatusDefault,
         channels |-> <<>>,
         spectators |-> <<>>,
         spectating |-> NoneInt,
         match |-> NoneInt,
         friend_only_dms |-> friend_only_dms,
         in_lobby |-> FALSE],
        acc)

(***************************************************************************)
(* Channels.  The store keeps one value per channel name.                  *)
(***************************************************************************)
ChanOsu == <<"#", "o", "s", "u">>
ChanLobby == <<"#", "l", "o", "b", "b", "y">>
ChanStaff == <<"#", "s", "t">>
PrefixSpec == <<"#", "s", "p", "e", "c", "_">>
PrefixMulti == <<"#", "m", "u", "l", "t", "i", "_">>
WireSpectator == <<"#", "s", "p", "e", "c", "t", "a", "t", "o", "r">>
WireMultiplayer == <<"#", "m", "u", "l", "t", "i", "p", "l", "a", "y", "e", "r">>

\* str(id) for the ids of the model
Digit(id) ==
    CASE id = 0 -> "0" [] id = 1 -> "1" [] id = 2 -> "2" [] id = 3 -> "3"
      [] id = 4 -> "4" [] id = 5 -> "5" [] id = 20 -> "20" [] OTHER -> "9"

SpecChannelName(host_id) == PrefixSpec \o <<Digit(host_id)>>

\* the order in which HGETALL lists the channels
AllChannelNames ==
    <<ChanOsu, ChanLobby, ChanStaff>> \o [i \in 1..Cardinality(AccountIds) |-> SpecChannelName(i)]

Channel(name, public_read, public_write, temp, hidden) ==
    [name |-> name, public_read |-> public_read, public_write |-> public_write,
     temp |-> temp, hidden |-> hidden, members |-> <<>>]

\* the channels initialise_channels seeds from bancho_channels
InitChannels ==
    LET cs == <<Channel(ChanOsu, TRUE, TRUE, FALSE, FALSE),
                Channel(ChanLobby, TRUE, TRUE, FALSE, FALSE),
                Channel(ChanStaff, FALSE, TRUE, FALSE, FALSE)>>
    IN [n \in {cs[i].name : i \in 1..Len(cs)} |->
            cs[CHOOSE i \in 1..Len(cs) : cs[i].name = n]]

StartsWith(s, prefix) ==
    Len(s) >= Len(prefix) /\ SubSeq(s, 1, Len(prefix)) = prefix

InSeq(x, s) == \E i \in 1..Len(s) : s[i] = x

\* list.remove(x): the first occurrence goes
RemoveFirst(s, x) ==
    LET i == CHOOSE j \in 1..Len(s) : s[j] = x /\ \A k \in 1..(j - 1) : s[k] # x
    IN SubSeq(s, 1, i - 1) \o SubSeq(s, i + 1, Len(s))

(***************************************************************************)
(* usecases.packets: the server packets, each by its id and its payload.   *)
(***************************************************************************)
Pkt(id, payload) == <<id, payload>>

user_id(id) == Pkt("CHO_USER_ID", id)
version_update_forced == Pkt("CHO_VERSION_UPDATE_FORCED", 0)
notification(msg) == Pkt("CHO_NOTIFICATION", msg)
protocol_version(version) == Pkt("CHO_PROTOCOL_VERSION", version)
bancho_privileges(priv) == Pkt("CHO_PRIVILEGES", priv)
channel_info_end == Pkt("CHO_CHANNEL_INFO_END", 0)
restart_server(time) == Pkt("CHO_RESTART", time)
menu_icon(icon_url, click_url) == Pkt("CHO_MAIN_MENU_ICON", <<icon_url, click_url>>)
friends_list(friends) == Pkt("CHO_FRIENDS_LIST", friends)
silence_end(time) == Pkt("CHO_SILENCE_END", time)
join_channel_packet(channel_name) == Pkt("CHO_CHANNEL_JOIN_SUCCESS", channel_name)
user_presence(session) == Pkt("CHO_USER_PRESENCE", session.id)
user_stats(session) == Pkt("CHO_USER_STATS", <<session.id, session.status.action>>)
user_restricted == Pkt("CHO_ACCOUNT_RESTRICTED", 0)
send_message(sender_id, content, target) == Pkt("CHO_SEND_MESSAGE", <<sender_id, content, target>>)
logout_packet(id) == Pkt("CHO_USER_LOGOUT", id)
spectator_left(id) == Pkt("CHO_FELLOW_SPECTATOR_LEFT", id)
host_spectator_left(id) == Pkt("CHO_SPECTATOR_LEFT", id)

channel_info(channel) ==
    LET channel_name ==
            IF StartsWith(channel.name, PrefixMulti) THEN WireMultiplayer
            ELSE IF StartsWith(channel.name, PrefixSpec) THEN WireSpectator
            ELSE channel.name
    IN Pkt("CHO_CHANNEL_INFO", <<channel_name, Len(channel.members)>>)

\* Account.bancho_privileges
BanchoPrivileges(privileges) ==
    {"SUPPORTER"}
    \cup (IF HasPriv(privileges, "USER_NORMAL") THEN {"PLAYER"} ELSE {})
    \cup (IF HasPriv(privileges, "ADMIN_MANAGE_USERS") THEN {"MODERATOR"}
          ELSE IF HasPriv(privileges, "ADMIN_MANAGE_SETTINGS") THEN {"DEVELOPER"} ELSE {})
    \cup (IF HasPriv(privileges, "ADMIN_CAKER") THEN {"OWNER"} ELSE {})

\* Session.silence_expire
SilenceExpire(session, now) ==
    IF session.silence_end = 0 THEN 0 ELSE session.silence_end - now

(***************************************************************************)
(* The operations below thread a record x through the code they model:     *)
(* x.r the key/value store, x.a the users table, x.s the Session object    *)
(* the running request holds, x.err whether an exception is propagating    *)
(* (nothing after it runs).                                                *)
(***************************************************************************)
Truthy(v) == v # NoneInt /\ v # 0

Raise(x) == [x EXCEPT !.err = TRUE]

Enqueue(x, uid, data) == [x EXCEPT !.r = EnqueueData(x.r, uid, data)]

(***************************************************************************)
(* repositories.sessions                                                   *)
(***************************************************************************)
SessionsFetchById(r, a, id) ==
    IF id \in DOMAIN r.sid THEN Rehydrate(r.sid[id], a[r.sid[id].id]) ELSE None

SessionsFetchByName(r, a, name) ==
    LET key == make_safe_name(name)
    IN IF key \in DOMAIN r.sname THEN Rehydrate(r.sname[key], a[r.sname[key].id]) ELSE None

SessionsFetchByToken(r, a, token) ==
    IF token \in DOMAIN r.stok THEN Rehydrate(r.stok[token], a[r.stok[token].id]) ELSE None

\* HGETALL sessions:token, in the order of the tokens
SessionsFetchAll(r, a) ==
    LET toks == SetToSeq(DOMAIN r.stok)
    IN [i \in 1..Len(toks) |-> Rehydrate(r.stok[toks[i]], a[r.stok[toks[i]].id])]

SessionIds(sessions) == [i \in 1..Len(sessions) |-> sessions[i].id]

\* the three HSETs of update, one index at a time
IndexKey(i, session) ==
    CASE i = 1 -> session.id
      [] i = 2 -> make_safe_name(session.name)
      [] OTHER -> session.token

IndexHSet(r, i, session) ==
    CASE i = 1 -> [r EXCEPT !.sid = HSet(@, IndexKey(1, session), SessionDict(session))]
      [] i = 2 -> [r EXCEPT !.sname = HSet(@, IndexKey(2, session), SessionDict(session))]
      [] OTHER -> [r EXCEPT !.stok = HSet(@, IndexKey(3, session), SessionDict(session))]

IndexHDel(r, i, session) ==
    CASE i = 1 -> [r EXCEPT !.sid = HDel(@, IndexKey(1, session))]
      [] i = 2 -> [r EXCEPT !.sname = HDel(@, IndexKey(2, session))]
      [] OTHER -> [r EXCEPT !.stok = HDel(@, IndexKey(3, session))]

\* repositories.sessions.enqueue_data: to every session of fetch_all
EnqueueGlobal(x, data) ==
    [x EXCEPT !.r = EnqueueAll(x.r, SessionIds(SessionsFetchAll(x.r, x.a)), data)]

\* the fan-out that ends update: stats, then presence, to everybody
UpdateFanOut(x, session) ==
    EnqueueGlobal(x, <<user_stats(session), user_presence(session)>>)

\* repositories.sessions.update, the block under locks:sessions:<id> in one step
SessionsUpdate(x, session) ==
    IF x.err THEN x
    ELSE UpdateFanOut(
            [x EXCEPT !.r = IndexHSet(IndexHSet(IndexHSet(x.r, 1, session), 2, session), 3, session)],
            session)

\* LREM session_list 0 id: every occurrence goes
ListRemoveAll(list, id) == SelectSeq(list, LAMBDA e : e # id)

\* repositories.sessions.delete, then remove_from_session_list
SessionsDelete(x, session) ==
    IF x.err THEN x
    ELSE LET r3 == IndexHDel(IndexHDel(IndexHDel(x.r, 1, session), 2, session), 3, session)
         IN [x EXCEPT !.r = [r3 EXCEPT !.slist = ListRemoveAll(@, session.id)]]

\* repositories.sessions.add_to_session_list: update, then LPUSH
ListPush(x, id) == IF x.err THEN x ELSE [x EXCEPT !.r.slist = <<id>> \o @]

AddToSessionList(x, session) == ListPush(SessionsUpdate(x, session), session.id)

(***************************************************************************)
(* repositories.channels                                                   *)
(***************************************************************************)
ChannelsFetchByName(r, name) == HGet(r.channels, make_safe_name(name))

ChannelsFetchAll(r) ==
    LET present == SelectSeq(AllChannelNames, LAMBDA n : n \in DOMAIN r.channels)
    IN [i \in 1..Len(present) |-> r.channels[present[i]]]

\* who repositories.channels.update and remove_user send CHANNEL_INFO to.
\* `target_session in channel.members` compares a Session with ids: never true.
ChannelInfoTargets(x, channel) ==
    IF channel.temp THEN channel.members
    ELSE SessionIds(SelectSeq(SessionsFetchAll(x.r, x.a),
            LAMBDA t : channel.public_read \/ HasPriv(t.privileges, "ADMIN_MANAGE_USERS")))

ChannelsUpdate(x, channel) ==
    IF x.err THEN x
    ELSE LET x1 == [x EXCEPT !.r.channels = HSet(@, channel.name, channel)]
         IN [x1 EXCEPT !.r = EnqueueAll(x1.r, ChannelInfoTargets(x1, channel),
                                        <<channel_info(channel)>>)]

ChannelsDelete(x, channel) ==
    IF x.err THEN x ELSE [x EXCEPT !.r.channels = HDel(@, channel.name)]

(***************************************************************************)
(* usecases.channels and usecases.sessions: channel membership, logout     *)
(***************************************************************************)
\* usecases.channels.remove_user
RemoveUser(x, channel_name, session_id) ==
    IF x.err THEN x
    ELSE LET channel == ChannelsFetchByName(x.r, channel_name)
         IN IF channel = None THEN x
            ELSE IF ~InSeq(session_id, channel.members) THEN Raise(x)
            ELSE LET c1 == [channel EXCEPT !.members = RemoveFirst(@, session_id)]
                 IN IF c1.members = <<>>
                    THEN LET x1 == ChannelsDelete(x, c1)
                         IN [x1 EXCEPT !.r = EnqueueAll(x1.r, ChannelInfoTargets(x1, c1),
                                                        <<channel_info(c1)>>)]
                    ELSE ChannelsUpdate(x, c1)

\* who join_channel sends its own CHANNEL_INFO to
JoinInfoTargets(x, channel) ==
    IF channel.temp THEN channel.members
    ELSE SessionIds(SelectSeq(SessionsFetchAll(x.r, x.a),
            LAMBDA t : ~(~channel.public_read /\ ~HasPriv(t.privileges, "ADMIN_MANAGE_USERS"))))

\* usecases.sessions.join_channel(x.s, channel): the store, the session object,
\* the channel object the caller keeps, and the value returned
JoinFanOut(x, channel) ==
    IF x.err THEN x
    ELSE [x EXCEPT !.r = EnqueueAll(x.r, JoinInfoTargets(x, channel), <<channel_info(channel)>>)]

\* lines 64-85, once the three guards have passed
JoinChannelDo(x, s1, c1) ==
    JoinFanOut(
        Enqueue(ChannelsUpdate(SessionsUpdate([x EXCEPT !.s = s1], s1), c1),
                s1.id, <<join_channel_packet(c1.name)>>),
        c1)

\* join_channel without the test for a member
JoinChannelAgain(x, channel) ==
    IF x.err THEN [x |-> x, ret |-> FALSE, channel |-> channel]
    ELSE IF ~channel.public_read /\ ~HasPriv(x.s.privileges, "ADMIN_MANAGE_USERS")
    THEN [x |-> x, ret |-> FALSE, channel |-> channel]
    ELSE IF channel.name = ChanLobby /\ ~x.s.in_lobby
    THEN [x |-> x, ret |-> FALSE, channel |-> channel]
    ELSE [x |-> JoinChannelDo(x, [x.s EXCEPT !.channels = Append(@, channel.name)],
                              [channel EXCEPT !.members = Append(@, x.s.id)]),
          ret |-> TRUE,
          channel |-> [channel EXCEPT !.members = Append(@, x.s.id)]]

JoinChannel(x, channel) ==
    IF x.err THEN [x |-> x, ret |-> FALSE, channel |-> channel]
    ELSE IF InSeq(x.s.id, channel.members)
    THEN [x |-> x, ret |-> FALSE, channel |-> channel]
    ELSE IF ~channel.public_read /\ ~HasPriv(x.s.privileges, "ADMIN_MANAGE_USERS")
    THEN [x |-> x, ret |-> FALSE, channel |-> channel]
    ELSE IF channel.name = ChanLobby /\ ~x.s.in_lobby
    THEN [x |-> x, ret |-> FALSE, channel |-> channel]
    ELSE [x |-> JoinChannelDo(x, [x.s EXCEPT !.channels = Append(@, channel.name)],
                              [channel EXCEPT !.members = Append(@, x.s.id)]),
          ret |-> TRUE,
          channel |-> [channel EXCEPT !.members = Append(@, x.s.id)]]

\* usecases.sessions.leave_channel(x.s, channel_name)
\* lines 92-93: session.channels.remove(channel_name), then update
LeaveChannelSession(x, channel_name) ==
    IF x.err THEN x
    ELSE IF ~InSeq(channel_name, x.s.channels) THEN Raise(x)
    ELSE SessionsUpdate([x EXCEPT !.s.channels = RemoveFirst(@, channel_name)],
                        [x.s EXCEPT !.channels = RemoveFirst(@, channel_name)])

LeaveChannel(x, channel_name) ==
    LeaveChannelSession(RemoveUser(x, channel_name, x.s.id), channel_name)

\* usecases.sessions.remove_spectator(host_id, x.s)
\* y.x is the request's state with the spectator as x.s, y.h the host's
\* Session object, y.chan the spectator channel fetched (or None)
RemoveSpectatorLeave(y) ==
    IF y.chan = None THEN y ELSE [y EXCEPT !.x = LeaveChannel(y.x, y.chan.name)]

\* the host leaves through its own Session object
RemoveSpectatorHostLeft(y, xh) == [y EXCEPT !.x = [xh EXCEPT !.s = y.x.s], !.h = xh.s]

RemoveSpectatorHost(y) ==
    IF y.chan = None \/ y.x.err THEN y
    ELSE IF y.h.spectators = <<>>
    THEN RemoveSpectatorHostLeft(y, LeaveChannel([y.x EXCEPT !.s = y.h], y.chan.name))
    ELSE [y EXCEPT !.x = Enqueue(y.x, y.h.id, <<channel_info(y.chan)>>)]

RemoveSpectatorNotify(y) ==
    IF y.x.err THEN y
    ELSE [y EXCEPT !.x =
            Enqueue([y.x EXCEPT !.r =
                        EnqueueAll(y.x.r, y.h.spectators,
                                   (IF y.chan # None /\ y.h.spectators # <<>>
                                    THEN <<channel_info(y.chan)>> ELSE <<>>)
                                   \o <<spectator_left(y.x.s.id)>>)],
                    y.h.id, <<host_spectator_left(y.x.s.id)>>)]

RemoveSpectatorUpdate(y) == SessionsUpdate(SessionsUpdate(y.x, y.h), y.x.s)

RemoveSpectator(x, host_id) ==
    IF x.err THEN x
    ELSE LET host == SessionsFetchById(x.r, x.a, host_id)
         IN IF host = None THEN x
            ELSE IF ~InSeq(x.s.id, host.spectators) THEN Raise(x)
            ELSE RemoveSpectatorUpdate(RemoveSpectatorNotify(RemoveSpectatorHost(
                    RemoveSpectatorLeave(
                        [x |-> x,
                         h |-> [host EXCEPT !.spectators = RemoveFirst(@, x.s.id)],
                         chan |-> ChannelsFetchByName(x.r, SpecChannelName(host_id))]))))

\* `for channel in session.channels: await leave_channel(session, channel)`:
\* the list iterator keeps an index while leave_channel shortens the list
RECURSIVE LogoutLeaveLoop(_, _)
LogoutLeaveLoop(x, i) ==
    IF x.err \/ i > Len(x.s.channels) THEN x
    ELSE LogoutLeaveLoop(LeaveChannel(x, x.s.channels[i]), i + 1)

\* usecases.sessions.logout(x.s)
LogoutSpectating(x) ==
    IF Truthy(x.s.spectating) THEN RemoveSpectator(x, x.s.spectating) ELSE x

LogoutDequeue(x) == IF x.err THEN x ELSE [x EXCEPT !.r = DequeueData(x.r, x.s.id)]

LogoutDelete(x) == SessionsDelete(x, x.s)

LogoutAnnounceNobody(x) == x

LogoutAnnounce(x) ==
    IF x.err THEN x
    ELSE IF HasPriv(x.s.privileges, "USER_PUBLIC")
    THEN EnqueueGlobal(x, <<logout_packet(x.s.id)>>)
    ELSE x

Logout(x) ==
    LogoutAnnounce(LogoutDelete(LogoutDequeue(LogoutLeaveLoop(LogoutSpectating(x), 1))))

\* usecases.sessions.remove_privilege(x.s, privilege)
RemovePrivilege(x, privilege) ==
    LET s1 == [x.s EXCEPT !.privileges = @ \ {privilege}]
        x1 == [x EXCEPT !.s = s1, !.a[s1.id].privileges = s1.privileges]
    IN SessionsUpdate(x1, s1)

(***************************************************************************)
(* api.bancho.login.  A login request carries the fields parse_login_data  *)
(* splits out of the body: username, password, the client version as       *)
(* parse_osu_version reads it (no match, or a build date counted in days   *)
(* relative to today), the adapters string and pm_private.                 *)
(***************************************************************************)
DELTA_90_DAYS == 90
BotId == 999

RunningUnderWine ==
    <<"r", "u", "n", "n", "i", "n", "g", "u", "n", "d", "e", "r", "w", "i", "n", "e">>

\* usecases.hardware.parse_adapters: None unless wine or some adapter of
\* adapters_str[:-1].split(".") is non-empty
AdaptersOk(adapters_str) ==
    \/ adapters_str = RunningUnderWine
    \/ \E i \in 1..(Len(adapters_str) - 1) : adapters_str[i] # "."

AlreadyLoggedIn == "You are already logged in!"
WelcomeBack == "Welcome back to Akatsuki!"

Today == 0

NeverHasSession(r, a, id) == FALSE

\* line 105: `await repositories.sessions.fetch_by_id(account.id) is not None`
HasSession(r, a, id) == SessionsFetchById(r, a, id) # None

\* lines 66-109: everything up to the duplicate-session check.  The outcome is
\* a response (kind "reply"), an exception (kind "error") or the account to
\* create the session for (kind "go").
LoginCheck(r, a, in) ==
    IF ~in.version.matched THEN [kind |-> "error"]     \* None.date = ... raises
    ELSE LET version_date == Today                      \* osu_version.date = date.today()
         IN IF version_date < Today - DELTA_90_DAYS
            THEN [kind |-> "reply", body |-> <<version_update_forced, user_id(0 - 2)>>]
            ELSE IF ~AdaptersOk(in.adapters)
            THEN [kind |-> "reply", body |-> <<user_id(0 - 5)>>]
            ELSE LET account == AccountByName(a, in.username)
                 IN IF account = None
                    THEN [kind |-> "reply", body |-> <<user_id(0 - 1)>>]
                    ELSE IF in.password # account.password
                    THEN [kind |-> "reply", body |-> <<user_id(0 - 1)>>]
                    ELSE IF HasSession(r, a, account.id)
                    THEN [kind |-> "reply",
                          body |-> <<user_id(0 - 1), notification(AlreadyLoggedIn)>>]
                    ELSE [kind |-> "go", account |-> account]

\* line 111, repositories.sessions.create: the Session with a fresh token,
\* written to the three indices
\* (of the arguments passed at line 111 the Session keeps pm_private as
\* friend_only_dms; geolocation, client and hardware are not modelled)
LoginCreate(r, a, account, in, now, token) ==
    LET session == NewSession(account, token, now, in.pm_private)
    IN SessionsUpdate([r |-> r, a |-> a, s |-> session, err |-> FALSE], session)

\* lines 125-142: one turn of the loop over the channels of fetch_all
LoginChannel(xd, channel) ==
    LET x == xd.x
    IN IF x.err THEN xd
       ELSE IF ~channel.public_read /\ ~HasPriv(x.s.privileges, "ADMIN_MANAGE_USERS")
       THEN xd
       ELSE LET info == channel_info(channel)
                \* `target is session` is never true of a fetched copy
                targets == SessionIds(SelectSeq(SessionsFetchAll(x.r, x.a),
                              LAMBDA t : channel.public_read
                                         \/ HasPriv(t.privileges, "ADMIN_MANAGE_USERS")))
                x1 == [x EXCEPT !.r = EnqueueAll(x.r, targets, <<info>>)]
            IN [x |-> JoinChannel(x1, channel).x, data |-> xd.data \o <<info>>]

RECURSIVE LoginChannels(_, _)
LoginChannels(xd, channels) ==
    IF channels = <<>> THEN xd
    ELSE LoginChannels(LoginChannel(xd, Head(channels)), Tail(channels))

\* lines 159-171: own presence to the others, the others' presence to the body
RECURSIVE LoginPresence(_, _, _)
LoginPresence(xd, targets, user_data) ==
    IF targets = <<>> \/ xd.x.err THEN xd
    ELSE LET target == Head(targets)
             x1 == IF HasPriv(xd.x.s.privileges, "USER_PUBLIC")
                   THEN Enqueue(xd.x, target.id, user_data) ELSE xd.x
             d1 == IF ~HasPriv(target.privileges, "USER_PUBLIC")
                   THEN xd.data \o <<user_presence(target), user_stats(target)>>
                   ELSE xd.data
         IN LoginPresence([x |-> x1, data |-> d1], Tail(targets), user_data)

\* lines 121-171: the welcome stream
LoginHeadSwapped(x) ==
    [x |-> x,
     data |-> <<user_id(x.s.id), protocol_version(19),
                bancho_privileges(BanchoPrivileges(x.s.privileges))>>]

\* lines 121-123
LoginHead(x) ==
    [x |-> x,
     data |-> <<protocol_version(19), user_id(x.s.id),
                bancho_privileges(BanchoPrivileges(x.s.privileges))>>]

\* lines 144-157
LoginTail(xd, now) ==
    [xd EXCEPT !.data = @ \o <<channel_info_end, menu_icon("", ""),
                               friends_list(xd.x.s.friends),
                               silence_end(SilenceExpire(xd.x.s, now)),
                               user_presence(xd.x.s), user_stats(xd.x.s)>>]

LoginOthers(xd) ==
    LoginPresence(xd, SessionsFetchAll(xd.x.r, xd.x.a),
                  <<user_presence(xd.x.s), user_stats(xd.x.s)>>)

LoginWelcome(x, now) ==
    LoginOthers(LoginTail(LoginChannels(LoginHead(x), ChannelsFetchAll(x.r)), now))

\* lines 173-220: restriction and freeze messages, pending verification, the
\* session list, the closing notification
\* lines 173-200
LoginStanding(xd, now) ==
    IF ~HasPriv(xd.x.s.privileges, "USER_PUBLIC")
    THEN [xd EXCEPT !.data = @ \o <<user_restricted,
                                    send_message(BotId, "RESTRICTION_MESSAGE", xd.x.s.name)>>]
    ELSE IF xd.x.s.freeze_end > now
    THEN [xd EXCEPT !.data = @ \o <<send_message(BotId, "FROZEN_MESSAGE", xd.x.s.name)>>]
    ELSE xd

\* lines 202-206
LoginPending(xd) ==
    IF HasPriv(xd.x.s.privileges, "USER_PENDING_VERIFICATION")
    THEN [xd EXCEPT !.x = RemovePrivilege(xd.x, "USER_PENDING_VERIFICATION")]
    ELSE xd

\* lines 208-220
LoginListed(xd) ==
    [x |-> AddToSessionList(xd.x, xd.x.s), data |-> xd.data \o <<notification(WelcomeBack)>>]

LoginFinish(xd, now) == LoginListed(LoginPending(LoginStanding(xd, now)))

\* the whole of login in one step
NoToken == 0

LoginDone(xd, token, id) ==
    [r |-> xd.x.r, a |-> xd.x.a, err |-> xd.x.err, body |-> xd.data,
     token |-> token, created |-> TRUE, id |-> id]

LoginRefused(r, a, chk) ==
    [r |-> r, a |-> a, err |-> chk.kind = "error",
     body |-> IF chk.kind = "reply" THEN chk.body ELSE <<>>,
     token |-> NoToken, created |-> FALSE, id |-> 0]

LoginGo(r, a, chk, in, now, token) ==
    IF chk.kind = "go"
    THEN LoginDone(LoginFinish(LoginWelcome(LoginCreate(r, a, chk.account, in, now, token),
                                            now), now),
                   token, chk.account.id)
    ELSE LoginRefused(r, a, chk)

LoginAll(r, a, in, now, token) == LoginGo(r, a, LoginCheck(r, a, in), in, now, token)

(***************************************************************************)
(* packets.reader and packets.typing: a request body is a sequence of      *)
(* bytes; a frame is a 7-byte header (u16 id, one pad byte, u32 length,    *)
(* little endian) followed by the payload.                                 *)
(***************************************************************************)
Take(data, n) == SubSeq(data, 1, IF n < Len(data) THEN n ELSE Len(data))
Drop(data, n) == SubSeq(data, (IF n < Len(data) THEN n ELSE Len(data)) + 1, Len(data))

\* int.from_bytes(data, "little"): no byte gives 0, fewer bytes than asked are
\* read as they are
RECURSIVE FromLittleEndian(_)
FromLittleEndian(data) ==
    IF data = <<>> THEN 0 ELSE Head(data) + 256 * FromLittleEndian(Tail(data))

\* int.from_bytes(data, "little", signed=True): two's complement on the bytes read
RECURSIVE FromLittleEndianSigned(_)
FromLittleEndianSigned(data) ==
    IF data = <<>> THEN 0
    ELSE IF Len(data) = 1 THEN (IF data[1] >= 128 THEN data[1] - 256 ELSE data[1])
    ELSE Head(data) + 256 * FromLittleEndianSigned(Tail(data))

ReadInt(data, signed) ==
    IF signed THEN FromLittleEndianSigned(data) ELSE FromLittleEndian(data)

U16(n) == <<n % 256, (n \div 256) % 256>>
U32(n) == <<n % 256, (n \div 256) % 256, (n \div 65536) % 256, (n \div 16777216) % 256>>

\* what a client puts on the wire for one packet: `declared` is the length
\* field, which a malformed frame may set apart from Len(payload)
Frame(id, declared, payload) == U16(id) \o <<0>> \o U32(declared) \o payload

\* the packet ids of constants.packets that the handlers below are registered for
OSU_CHANGE_ACTION == 0
OSU_LOGOUT == 2
OSU_TOGGLE_BLOCK_NON_FRIEND_DMS == 99

\* api.packets.HANDLERS / RESTRICTED_HANDLERS as register_packet fills them
HANDLERS == {OSU_CHANGE_ACTION, OSU_LOGOUT, OSU_TOGGLE_BLOCK_NON_FRIEND_DMS}
RESTRICTED_HANDLERS == {OSU_CHANGE_ACTION, OSU_LOGOUT}

\* parse_header on at least 7 bytes: struct.unpack("<HxI", data[:7]); the
\* Packets(...) lookup yields the id for every u16
parse_header(data) ==
    [packet_id |-> FromLittleEndian(SubSeq(data, 1, 2)),
     length |-> FromLittleEndian(SubSeq(data, 4, 7))]

\* Packet(data): the header re-read from the slice, the rest is the payload
Packet(data, at) ==
    LET h == parse_header(data)
    IN [packet_id |-> h.packet_id, length |-> h.length, data |-> Drop(data, 7), at |-> at]

SkipHeaderOnly(data, length) == Drop(data, 7)

\* data_view[7 + length:]
Skip(data, length) == Drop(data, 7 + length)

\* PacketArray._split_data from byte offset `at`; err is the struct.error of
\* a header cut short
RECURSIVE SplitData(_, _, _)
SplitData(data, packet_map, at) ==
    IF data = <<>> THEN [err |-> FALSE, packets |-> <<>>]
    ELSE IF Len(data) < 7 THEN [err |-> TRUE, packets |-> <<>>]
    ELSE LET h == parse_header(data)
             rest == SplitData(Skip(data, h.length), packet_map, at + 7 + h.length)
         IN IF h.packet_id \notin packet_map THEN rest
            ELSE [err |-> rest.err,
                  packets |-> <<Packet(Take(data, 7 + h.length), at)>> \o rest.packets]

AlwaysHandlers(session) == HANDLERS

\* handle_packet_data lines 194-196
PacketMapFor(session) ==
    IF ~HasPriv(session.privileges, "USER_PUBLIC") THEN RESTRICTED_HANDLERS ELSE HANDLERS

PacketAtReversed(packets, i) == packets[Len(packets) + 1 - i]

\* PacketArray.__iter__: the i-th packet handed to the loop
PacketAt(packets, i) == packets[i]

(***************************************************************************)
(* api.packets handlers; x.s is the session object of the request          *)
(***************************************************************************)
\* ChangeActionPacket.action is a u8, the first field of the payload
change_action(x, packet) ==
    [x EXCEPT !.s.status.action = ReadInt(Take(packet.data, 1), FALSE)]

\* LogoutPacket is one i32; time.time() - login_time < 1.0 returns at once
user_logout_at_once(x, packet, now) == Logout(x)

user_logout(x, packet, now) ==
    IF now - x.s.login_time < 1 THEN x ELSE Logout(x)

\* ToggleDMPacket.value is an i32
toggle_dms(x, packet) ==
    [x EXCEPT !.s.friend_only_dms = (ReadInt(Take(packet.data, 4), TRUE) = 1)]

\* packet_map[packet.packet_id] applied
Handle(x, packet, now) ==
    CASE packet.packet_id = OSU_CHANGE_ACTION -> change_action(x, packet)
      [] packet.packet_id = OSU_LOGOUT -> user_logout(x, packet, now)
      [] packet.packet_id = OSU_TOGGLE_BLOCK_NON_FRIEND_DMS -> toggle_dms(x, packet)

(***************************************************************************)
(* The state the server starts in: no session, empty queues, the seeded    *)
(* channels, no lock held, no request in flight.                           *)
(***************************************************************************)
EmptyHash == <<>>

InitRedis ==
    [sid |-> EmptyHash, sname |-> EmptyHash, stok |-> EmptyHash, slist |-> <<>>,
     queues |-> [u \in AccountIds |-> <<>>],
     channels |-> InitChannels]

Idle == [pc |-> "idle"]

InitHist ==
    [ops |-> 0,
     appended |-> [u \in AccountIds |-> <<>>],
     delivered |-> [u \in AccountIds |-> <<>>],
     fresh |-> [u \in AccountIds |-> FALSE],
     stale |-> FALSE,
     empties |-> 0,
     requests |-> 0]

Init ==
    /\ redis = InitRedis
    /\ locks = {}
    /\ accounts = InitAccounts
    /\ tasks = [t \in Tasks |-> Idle]
    /\ clock = 0
    /\ uuid = 0
    /\ resp = None
    /\ hist = InitHist

(***************************************************************************)
(* SpecQueue: enqueue_data and dequeue_data, one Redis command at a time,  *)
(* called by concurrent coroutines.                                        *)
(***************************************************************************)
QueueUsers == {1, 2}
Payloads == {<<1>>, <<2, 3>>}

QueueLock(u) == LockKey("queues", u)

enqueue_data_Call(t, u, b) ==
    /\ tasks[t].pc = "idle"
    /\ hist.ops < MaxOps
    /\ tasks' = [tasks EXCEPT ![t] = [pc |-> "enq_lock", uid |-> u, data |-> b]]
    /\ hist' = [hist EXCEPT !.ops = @ + 1]
    /\ UNCHANGED <<redis, locks, accounts, clock, uuid, resp>>

enqueue_data_Lock(t) ==
    /\ tasks[t].pc = "enq_lock"
    /\ LockFree(QueueLock(tasks[t].uid))
    /\ locks' = LockAcquire(QueueLock(tasks[t].uid), t)
    /\ tasks' = [tasks EXCEPT ![t].pc = "enq_append"]
    /\ UNCHANGED <<redis, accounts, clock, uuid, resp, hist>>

enqueue_data_Append(t) ==
    /\ tasks[t].pc = "enq_append"
    /\ redis' = [redis EXCEPT !.queues[tasks[t].uid] = RedisAppend(@, tasks[t].data)]
    /\ hist' = [hist EXCEPT !.appended[tasks[t].uid] = @ \o tasks[t].data,
                            !.fresh[tasks[t].uid] = TRUE]
    /\ tasks' = [tasks EXCEPT ![t].pc = "enq_unlock"]
    /\ UNCHANGED <<locks, accounts, clock, uuid, resp>>

enqueue_data_Unlock(t) ==
    /\ tasks[t].pc = "enq_unlock"
    /\ locks' = LockRelease(QueueLock(tasks[t].uid), t)
    /\ tasks' = [tasks EXCEPT ![t] = Idle]
    /\ UNCHANGED <<redis, accounts, clock, uuid, resp, hist>>

dequeue_data_Call(t, u) ==
    /\ tasks[t].pc = "idle"
    /\ hist.ops < MaxOps
    /\ tasks' = [tasks EXCEPT ![t] = [pc |-> "deq_lock", uid |-> u, data |-> <<>>]]
    /\ hist' = [hist EXCEPT !.ops = @ + 1]
    /\ UNCHANGED <<redis, locks, accounts, clock, uuid, resp>>

dequeue_data_Lock(t) ==
    /\ tasks[t].pc = "deq_lock"
    /\ LockFree(QueueLock(tasks[t].uid))
    /\ locks' = LockAcquire(QueueLock(tasks[t].uid), t)
    /\ tasks' = [tasks EXCEPT ![t].pc = "deq_get"]
    /\ UNCHANGED <<redis, accounts, clock, uuid, resp, hist>>

\* GET; `if not redis_data: return data` leaves the block with b""
dequeue_data_Get(t) ==
    /\ tasks[t].pc = "deq_get"
    /\ LET redis_data == redis.queues[tasks[t].uid]
       IN /\ tasks' = [tasks EXCEPT ![t].data = redis_data,
                                    ![t].pc = IF redis_data = <<>> THEN "deq_unlock"
                                              ELSE "deq_delete"]
          /\ hist' = [hist EXCEPT !.stale = @ \/ (redis_data # <<>> /\ ~hist.fresh[tasks[t].uid]),
                                  !.fresh[tasks[t].uid] = FALSE,
                                  !.empties = IF redis_data = <<>> THEN 1 ELSE @]
    /\ UNCHANGED <<redis, locks, accounts, clock, uuid, resp>>

dequeue_data_Delete(t) ==
    /\ tasks[t].pc = "deq_delete"
    /\ redis' = [redis EXCEPT !.queues[tasks[t].uid] = RedisDelete(@)]
    /\ hist' = [hist EXCEPT !.delivered[tasks[t].uid] = @ \o tasks[t].data]
    /\ tasks' = [tasks EXCEPT ![t].pc = "deq_unlock"]
    /\ UNCHANGED <<locks, accounts, clock, uuid, resp>>

dequeue_data_Unlock(t) ==
    /\ tasks[t].pc = "deq_unlock"
    /\ locks' = LockRelease(QueueLock(tasks[t].uid), t)
    /\ resp' = [kind |-> "dequeue", uid |-> tasks[t].uid, body |-> tasks[t].data]
    /\ tasks' = [tasks EXCEPT ![t] = Idle]
    /\ UNCHANGED <<redis, accounts, clock, uuid, hist>>

NextQueue ==
    \E t \in Tasks :
        \/ \E u \in QueueUsers, b \in Payloads : enqueue_data_Call(t, u, b)
        \/ enqueue_data_Lock(t)
        \/ enqueue_data_Append(t)
        \/ enqueue_data_Unlock(t)
        \/ \E u \in QueueUsers : dequeue_data_Call(t, u)
        \/ dequeue_data_Lock(t)
        \/ dequeue_data_Get(t)
        \/ dequeue_data_Delete(t)
        \/ dequeue_data_Unlock(t)

SpecQueue == Init /\ [][NextQueue]_vars

\* C1: for every user, what the dequeues have returned so far, followed by what
\* is still queued, is exactly what was appended, in append order; and no
\* dequeue returns bytes when nothing was appended since the previous dequeue.
C1_QueueDeliversAppendOrder ==
    /\ \A u \in AccountIds : hist.delivered[u] \o redis.queues[u] = hist.appended[u]
    /\ ~hist.stale

\* two payloads appended by different calls were drained together, in append
\* order, and some dequeue found the queue empty
C1_Witness ==
    \E u \in QueueUsers :
        /\ hist.delivered[u] = <<2, 3, 1>>
        /\ redis.queues[u] = <<>>
        /\ hist.empties = 1
        /\ resp # None /\ resp.kind = "dequeue" /\ resp.uid = u /\ resp.body = <<>>

(***************************************************************************)
(* SpecDispatch: handle_packet_data on one request body, for a session of  *)
(* a server on which accounts 1 (public) and 2 (restricted) have logged    *)
(* in.  The loop over the PacketArray takes one step per handler.          *)
(***************************************************************************)
LoginInput(username, password, matched, adapters, pm_private) ==
    [username |-> username, password |-> password,
     version |-> [matched |-> matched, date |-> Today],
     adapters |-> adapters, pm_private |-> pm_private]

SomeAdapters == <<"a", ".", "b", ".">>

\* the same request sent by a build whose date parse_osu_version reads as the
\* day before the oldest one DELTA_90_DAYS admits
OldBuild(in) == [in EXCEPT !.version.date = Today - DELTA_90_DAYS - 1]

AfterLoginAl == LoginAll(InitRedis, InitAccounts,
                         LoginInput(NameAl, "good", TRUE, SomeAdapters, FALSE), 0, 1)
AfterLoginBo == LoginAll(AfterLoginAl.r, AfterLoginAl.a,
                         LoginInput(NameBo, "good", TRUE, SomeAdapters, FALSE), 0, 2)

InitDispatch ==
    /\ redis = AfterLoginBo.r
    /\ accounts = AfterLoginBo.a
    /\ locks = {}
    /\ tasks = [t \in Tasks |-> Idle]
    /\ clock = 0
    /\ uuid = 2
    /\ resp = None
    /\ hist = InitHist

FrameChangeAction == [id |-> OSU_CHANGE_ACTION, declared |-> 1, payload |-> <<5>>]
FrameLogout == [id |-> OSU_LOGOUT, declared |-> 4, payload |-> <<0, 0, 0, 0>>]
FrameToggle == [id |-> OSU_TOGGLE_BLOCK_NON_FRIEND_DMS, declared |-> 4, payload |-> <<1, 0, 0, 0>>]
\* an id that names no packet
FrameUnknown == [id |-> 300, declared |-> 2, payload |-> <<9, 9>>]
\* declares four bytes, carries one
FrameToggleCut == [id |-> OSU_TOGGLE_BLOCK_NON_FRIEND_DMS, declared |-> 4, payload |-> <<1>>]

FrameMenu == {FrameChangeAction, FrameLogout, FrameToggle, FrameUnknown, FrameToggleCut}

FrameLists == UNION {[1..n -> FrameMenu] : n \in 0..MaxPackets}

Encode(frames) == Concat([i \in 1..Len(frames) |->
                             Frame(frames[i].id, frames[i].declared, frames[i].payload)])

Tick ==
    /\ clock < MaxTime
    /\ clock' = clock + 1
    /\ UNCHANGED <<redis, locks, accounts, tasks, uuid, resp, hist>>

\* lines 194-198: the map, should_update, the PacketArray
handle_packet_data_Begin(t, token, frames) ==
    /\ resp = None
    /\ \A u \in Tasks : tasks[u].pc = "idle"
    /\ SessionsFetchByToken(redis, accounts, token) # None
    /\ \E session \in {SessionsFetchByToken(redis, accounts, token)} :
       \E packet_array \in {SplitData(Encode(frames), PacketMapFor(session), 0)} :
          IF packet_array.err
          THEN /\ resp' = [kind |-> "error", at |-> "split", frames |-> frames,
                           session |-> session]
               /\ UNCHANGED tasks
          ELSE /\ tasks' = [tasks EXCEPT ![t] =
                               [pc |-> "packets", session |-> session, entry |-> session,
                                frames |-> frames, packets |-> packet_array.packets,
                                i |-> 1, should_update |-> TRUE, invoked |-> <<>>,
                                before |-> redis]]
               /\ UNCHANGED resp
    /\ UNCHANGED <<redis, locks, accounts, clock, uuid, hist>>

\* lines 199-204: one turn of the loop
handle_packet_data_Step(t) ==
    /\ tasks[t].pc = "packets"
    /\ tasks[t].i <= Len(tasks[t].packets)
    /\ \E task \in {tasks[t]} :
       \E packet \in {PacketAt(task.packets, task.i)} :
       \E x \in {Handle([r |-> redis, a |-> accounts, s |-> task.session, err |-> FALSE],
                        packet, clock)} :
          IF x.err
          THEN /\ resp' = [kind |-> "error", at |-> "handler", frames |-> task.frames,
                           session |-> task.entry]
               /\ tasks' = [tasks EXCEPT ![t] = Idle]
               /\ UNCHANGED <<redis, accounts>>
          ELSE /\ redis' = x.r
               /\ accounts' = x.a
               /\ tasks' = [tasks EXCEPT ![t] =
                               [task EXCEPT !.session = x.s,
                                            !.i = @ + 1,
                                            !.should_update =
                                                IF packet.packet_id = OSU_LOGOUT THEN FALSE ELSE @,
                                            !.invoked = Append(@, packet)]]
               /\ UNCHANGED resp
    /\ UNCHANGED <<locks, clock, uuid, hist>>

\* lines 206-207: the closing update
handle_packet_data_End(t) ==
    /\ tasks[t].pc = "packets"
    /\ tasks[t].i > Len(tasks[t].packets)
    /\ \E task \in {tasks[t]} :
       \E x0 \in {[r |-> redis, a |-> accounts, s |-> task.session, err |-> FALSE]} :
       \E x \in {IF task.should_update THEN SessionsUpdate(x0, task.session) ELSE x0} :
          /\ redis' = x.r
          /\ resp' = [kind |-> "batch", frames |-> task.frames, session |-> task.entry,
                      left |-> task.session, packets |-> task.packets,
                      invoked |-> task.invoked, before |-> task.before,
                      loop_end |-> redis, should_update |-> task.should_update]
          /\ tasks' = [tasks EXCEPT ![t] = Idle]
    /\ UNCHANGED <<locks, accounts, clock, uuid, hist>>

NextDispatch ==
    \/ Tick
    \/ \E t \in Tasks, token \in 1..2, frames \in FrameLists :
          handle_packet_data_Begin(t, token, frames)
    \/ \E t \in Tasks : handle_packet_data_Step(t)
    \/ \E t \in Tasks : handle_packet_data_End(t)

SpecDispatch == InitDispatch /\ [][NextDispatch]_vars

\* what the claims about a batch speak of
WellFormed(frames) == \A i \in 1..Len(frames) : frames[i].declared = Len(frames[i].payload)

FrameIds(frames) == [i \in 1..Len(frames) |-> frames[i].id]

PacketIds(packets) == [i \in 1..Len(packets) |-> packets[i].packet_id]

Recognised(frames, packet_map) == SelectSeq(frames, LAMBDA f : f.id \in packet_map)

IsPublic(session) == HasPriv(session.privileges, "USER_PUBLIC")

Running(t) == tasks[t].pc = "packets"

BatchDone == resp # None /\ resp.kind = "batch"

C5_TruncatedNotInvoked ==
    \A n \in 1..MaxPackets :
       (/\ resp # None
        /\ Len(resp.frames) = n
        /\ WellFormed(SubSeq(resp.frames, 1, n - 1))
        /\ resp.frames[n].declared > Len(resp.frames[n].payload)) =>
          /\ resp.kind = "batch"
          /\ PacketIds(resp.invoked)
                = FrameIds(Recognised(SubSeq(resp.frames, 1, n - 1),
                                      PacketMapFor(resp.session)))

\* C6: the PacketArray holds the recognised packets in the order of their
\* offsets in the body, and the loop hands them to the handlers in that
\* order, one finished before the next is taken.
C6_HandlersInBodyOrder ==
    /\ \A t \in Tasks :
          Running(t) =>
             /\ \A i, j \in 1..Len(tasks[t].packets) :
                   i < j => tasks[t].packets[i].at < tasks[t].packets[j].at
             /\ Len(tasks[t].invoked) = tasks[t].i - 1
             /\ tasks[t].invoked = SubSeq(tasks[t].packets, 1, tasks[t].i - 1)
    /\ BatchDone => resp.invoked = resp.packets

C6_Witness ==
    /\ BatchDone
    /\ IsPublic(resp.session)
    /\ resp.frames = <<FrameChangeAction, FrameToggle>>
    /\ PacketIds(resp.invoked) = <<OSU_CHANGE_ACTION, OSU_TOGGLE_BLOCK_NON_FRIEND_DMS>>
    /\ resp.left.status.action = 5
    /\ resp.left.friend_only_dms

(***************************************************************************)
(* SpecLogin: POST / on a fresh server, from concurrent requests.  Without *)
(* an osu-token header bancho_request awaits login, whose awaits are where *)
(* another request may run: after the checks, after create, and the rest.  *)
(* With the header it returns at once.                                     *)
(***************************************************************************)
NoAdapters == <<".">>
NameAlLower == <<"a", "l">>

LoginInputs ==
    {LoginInput(NameAl, "good", TRUE, SomeAdapters, FALSE),
     LoginInput(NameAlLower, "good", TRUE, RunningUnderWine, TRUE),
     LoginInput(NameAl, "bad", TRUE, SomeAdapters, FALSE),
     LoginInput(NameAl, "good", FALSE, SomeAdapters, FALSE),
     LoginInput(NameAl, "good", TRUE, NoAdapters, FALSE),
     LoginInput(NameBo, "good", TRUE, SomeAdapters, FALSE),
     LoginInput(NameCy, "good", TRUE, SomeAdapters, FALSE),
     LoginInput(NameNobody, "good", TRUE, SomeAdapters, FALSE),
     OldBuild(LoginInput(NameCy, "good", TRUE, SomeAdapters, FALSE))}

TokenBodies == {<<>>, <<FrameChangeAction>>}

\* what the login request said of its client build, kept with the answer
Asked(in) == in.version

\* the request passes every check before the one for an existing session,
\* and the account has a session in the store
AlreadyHasSession(r, a, in) ==
    /\ in.version.matched
    /\ AdaptersOk(in.adapters)
    /\ AccountByName(a, in.username) # None
    /\ in.password = AccountByName(a, in.username).password
    /\ AccountByName(a, in.username).id \in DOMAIN r.sid

\* bancho_request lines 54-62 with an osu-token header: `return b""`
bancho_request_Token(t, token, frames) ==
    /\ tasks[t].pc = "idle"
    /\ hist.requests < MaxRequests
    /\ resp' = [kind |-> "token", token |-> token, frames |-> frames,
                known |-> token \in DOMAIN redis.stok,
                body |-> <<>>, before |-> redis, after |-> redis]
    /\ hist' = [hist EXCEPT !.requests = @ + 1]
    /\ UNCHANGED <<redis, locks, accounts, tasks, clock, uuid>>

\* login lines 66-109
login_Check(t, in) ==
    /\ tasks[t].pc = "idle"
    /\ hist.requests < MaxRequests
    /\ \E chk \in {LoginCheck(redis, accounts, in)} :
          IF chk.kind = "go"
          THEN /\ tasks' = [tasks EXCEPT ![t] =
                               [pc |-> "create", in |-> in, account |-> chk.account,
                                dup |-> AlreadyHasSession(redis, accounts, in),
                                before |-> redis]]
               /\ UNCHANGED resp
          ELSE /\ resp' = [kind |-> "login", err |-> chk.kind = "error",
                           body |-> IF chk.kind = "reply" THEN chk.body ELSE <<>>,
                           token |-> NoToken, created |-> FALSE, id |-> 0,
                           dup |-> AlreadyHasSession(redis, accounts, in),
                           version |-> Asked(in),
                           before |-> redis, after |-> redis]
               /\ UNCHANGED tasks
    /\ hist' = [hist EXCEPT !.requests = @ + 1]
    /\ UNCHANGED <<redis, locks, accounts, clock, uuid>>

\* login line 111
login_Create(t) ==
    /\ tasks[t].pc = "create"
    /\ \E x \in {LoginCreate(redis, accounts, tasks[t].account, tasks[t].in, clock, uuid + 1)} :
          /\ redis' = x.r
          /\ tasks' = [tasks EXCEPT ![t] =
                          [pc |-> "welcome", session |-> x.s, dup |-> tasks[t].dup,
                           version |-> Asked(tasks[t].in),
                           before |-> tasks[t].before]]
    /\ uuid' = uuid + 1
    /\ UNCHANGED <<locks, accounts, clock, resp, hist>>

\* login lines 121-220 and the Response of bancho_request
login_Welcome(t) ==
    /\ tasks[t].pc = "welcome"
    /\ \E xd \in {LoginFinish(LoginWelcome([r |-> redis, a |-> accounts,
                                            s |-> tasks[t].session, err |-> FALSE], clock),
                              clock)} :
          /\ redis' = xd.x.r
          /\ accounts' = xd.x.a
          /\ resp' = [kind |-> "login", err |-> xd.x.err, body |-> xd.data,
                      token |-> tasks[t].session.token, created |-> TRUE,
                      id |-> tasks[t].session.id, dup |-> tasks[t].dup,
                      version |-> tasks[t].version,
                      before |-> tasks[t].before, after |-> xd.x.r]
    /\ tasks' = [tasks EXCEPT ![t] = Idle]
    /\ UNCHANGED <<locks, clock, uuid, hist>>

NextLogin ==
    \/ \E t \in Tasks, token \in 1..MaxRequests, frames \in TokenBodies :
          bancho_request_Token(t, token, frames)
    \/ \E t \in Tasks, in \in LoginInputs : login_Check(t, in)
    \/ \E t \in Tasks : login_Create(t)
    \/ \E t \in Tasks : login_Welcome(t)

SpecLogin == Init /\ [][NextLogin]_vars

LoginAnswered == resp # None /\ resp.kind = "login"

\* C2: a POST with an osu-token header answers CHO_RESTART(0) when the token
\* names no session; otherwise the body's packets are dispatched and the answer
\* is the session's queue, which is empty afterwards.
C2_TokenPost ==
    (resp # None /\ resp.kind = "token") =>
       IF ~resp.known
       THEN resp.body = <<restart_server(0)>>
       ELSE LET id == resp.before.stok[resp.token].id
            IN /\ resp.after.queues[id] = <<>>
               /\ resp.body # <<>>
               /\ (resp.frames = <<FrameChangeAction>>) =>
                     resp.after.stok[resp.token].status.action = 5

\* C7: a login that reaches the check for an existing session while the
\* account has one is answered USER_ID(-1) and the notification "You are
\* already logged in!"; it creates no session and leaves the store, queues
\* included, as it was.
C7_DuplicateLoginRefused ==
    /\ \A t \in Tasks : tasks[t].pc \in {"create", "welcome"} => ~tasks[t].dup
    /\ (LoginAnswered /\ resp.dup) =>
          /\ resp.body = <<<<"CHO_USER_ID", 0 - 1>>,
                           <<"CHO_NOTIFICATION", "You are already logged in!">>>>
          /\ ~resp.created
          /\ resp.token = NoToken
          /\ resp.after = resp.before

C7_Witness ==
    /\ LoginAnswered
    /\ resp.dup
    /\ 1 \in DOMAIN resp.before.sid
    /\ resp.before.queues[1] # <<>>
    /\ redis = resp.before

\* C8: the token index never holds two sessions of one account.
C8_OneSessionPerAccount ==
    \A t1, t2 \in DOMAIN redis.stok :
       redis.stok[t1].id = redis.stok[t2].id => t1 = t2

\* C9: a session found in one of the three indices is found in all three,
\* under its id, its safe name and its token, with the same serialized value.
C9_IndicesAgree ==
    /\ \A tok \in DOMAIN redis.stok :
          LET d == redis.stok[tok]
              safe == make_safe_name(accounts[d.id].name)
          IN /\ d.token = tok
             /\ d.id \in DOMAIN redis.sid /\ redis.sid[d.id] = d
             /\ safe \in DOMAIN redis.sname /\ redis.sname[safe] = d
    /\ \A id \in DOMAIN redis.sid :
          redis.sid[id].token \in DOMAIN redis.stok
             /\ redis.stok[redis.sid[id].token] = redis.sid[id]
    /\ \A n \in DOMAIN redis.sname :
          redis.sname[n].token \in DOMAIN redis.stok
             /\ redis.stok[redis.sname[n].token] = redis.sname[n]

VisibleChannels(id) ==
    SelectSeq(ChannelsFetchAll(InitRedis),
              LAMBDA c : c.public_read \/ HasPriv(InitAccounts[id].privileges, "ADMIN_MANAGE_USERS"))

\* C10: the body of a successful login starts PROTOCOL_VERSION(19),
\* USER_ID(id), BANCHO_PRIVILEGES, then one CHANNEL_INFO per visible channel,
\* CHANNEL_INFO_END, MAIN_MENU_ICON, FRIENDS_LIST, SILENCE_END, the session's
\* own USER_PRESENCE and USER_STATS; another session's presence comes later.
C10_WelcomeOrder ==
    (LoginAnswered /\ resp.created /\ ~resp.err) =>
       LET b == resp.body
           vis == VisibleChannels(resp.id)
           k == Len(vis)
       IN /\ Len(b) >= k + 9
          /\ b[1] = <<"CHO_PROTOCOL_VERSION", 19>>
          /\ b[2] = <<"CHO_USER_ID", resp.id>>
          /\ b[3][1] = "CHO_PRIVILEGES"
          /\ \A i \in 1..k : b[3 + i][1] = "CHO_CHANNEL_INFO" /\ b[3 + i][2][1] = vis[i].name
          /\ b[k + 4][1] = "CHO_CHANNEL_INFO_END"
          /\ b[k + 5][1] = "CHO_MAIN_MENU_ICON"
          /\ b[k + 6][1] = "CHO_FRIENDS_LIST"
          /\ b[k + 7][1] = "CHO_SILENCE_END"
          /\ b[k + 8] = <<"CHO_USER_PRESENCE", resp.id>>
          /\ b[k + 9][1] = "CHO_USER_STATS" /\ b[k + 9][2][1] = resp.id
          /\ \A i \in 1..Len(b) :
                (b[i][1] = "CHO_USER_PRESENCE" /\ b[i][2] # resp.id) => i > k + 9

C10_Witness ==
    /\ LoginAnswered
    /\ resp.created
    /\ resp.id = 3
    /\ Len(VisibleChannels(3)) = 3
    /\ \E i \in 1..Len(resp.body) : resp.body[i] = <<"CHO_USER_PRESENCE", 2>>

(***************************************************************************)
(* Spectating and private messages: usecases.sessions.add_spectator and    *)
(* the handlers of api.packets that use it.  As in remove_spectator, y.x   *)
(* is the request's state with the spectator as x.s, y.h the host's        *)
(* Session object and y.chan the spectator channel.                        *)
(***************************************************************************)
spectator_joined(id) == Pkt("CHO_FELLOW_SPECTATOR_JOINED", id)
host_spectator_joined(id) == Pkt("CHO_SPECTATOR_JOINED", id)
spectate_frames(frames) == Pkt("CHO_SPECTATE_FRAMES", frames)
private_message_blocked(recipient_name) == Pkt("CHO_USER_DM_BLOCKED", recipient_name)
target_silenced(recipient_name) == Pkt("CHO_TARGET_IS_SILENCED", recipient_name)

\* Session.silenced: `self.silence_expire > int(time.time())`
Silenced(session, now) == SilenceExpire(session, now) > now

\* lines 119-133: the channel is fetched, or made and joined by the host
AddSpectatorHostJoined(y, j) ==
    [y EXCEPT !.x = [j.x EXCEPT !.s = y.x.s], !.h = j.x.s, !.chan = j.channel]

AddSpectatorChannel(y) ==
    IF y.chan # None THEN y
    ELSE AddSpectatorHostJoined(
            y, JoinChannel([y.x EXCEPT !.s = y.h],
                           Channel(SpecChannelName(y.h.id), TRUE, TRUE, TRUE, TRUE)))

\* line 135: join_channel(spectator, spectator_channel)
AddSpectatorJoined(y, j) == [y EXCEPT !.x = j.x, !.chan = j.channel]

AddSpectatorJoin(y) == AddSpectatorJoined(y, JoinChannel(y.x, y.chan))

\* lines 137-143: each spectator the host has learns of the new one, and the
\* new one of each of them
RECURSIVE AddSpectatorFellows(_, _, _)
AddSpectatorFellows(r, host_spectators, spectator_id) ==
    IF host_spectators = <<>> THEN r
    ELSE AddSpectatorFellows(
            EnqueueData(EnqueueData(r, Head(host_spectators),
                                    <<spectator_joined(spectator_id)>>),
                        spectator_id, <<spectator_joined(Head(host_spectators))>>),
            Tail(host_spectators), spectator_id)

\* lines 137-145
AddSpectatorNotify(y) ==
    IF y.x.err THEN y
    ELSE [y EXCEPT !.x =
            Enqueue([y.x EXCEPT !.r = AddSpectatorFellows(y.x.r, y.h.spectators, y.x.s.id)],
                    y.h.id, <<host_spectator_joined(y.x.s.id)>>)]

\* lines 147-151: the two objects change, then both are written
AddSpectatorLinked(x, h1, s1) == SessionsUpdate(SessionsUpdate([x EXCEPT !.s = s1], h1), s1)

AddSpectatorUpdate(y) ==
    IF y.x.err THEN y.x
    ELSE AddSpectatorLinked(y.x, [y.h EXCEPT !.spectators = Append(@, y.x.s.id)],
                            [y.x.s EXCEPT !.spectating = y.h.id])

\* usecases.sessions.add_spectator(host, x.s)
AddSpectator(x, host) ==
    IF x.err THEN x
    ELSE AddSpectatorUpdate(AddSpectatorNotify(AddSpectatorJoin(AddSpectatorChannel(
            [x |-> x, h |-> host,
             chan |-> ChannelsFetchByName(x.r, SpecChannelName(host.id))]))))

\* api.packets.start_spectating; StartSpectatingPacket.target_id is an i32
StartSpectatingLeave(x, target_id) ==
    IF Truthy(x.s.spectating) /\ x.s.spectating # target_id
    THEN RemoveSpectator(x, x.s.spectating)
    ELSE x

StartSpectatingAdd(x, host_session) ==
    IF host_session = None THEN x ELSE AddSpectator(x, host_session)

\* the host is fetched at line 293, before remove_spectator runs
start_spectating(x, target_id) ==
    StartSpectatingAdd(
        IF SessionsFetchById(x.r, x.a, target_id) = None THEN x
        ELSE StartSpectatingLeave(x, target_id),
        SessionsFetchById(x.r, x.a, target_id))

\* api.packets.stop_spectating
stop_spectating(x) ==
    IF ~Truthy(x.s.spectating) THEN x ELSE RemoveSpectator(x, x.s.spectating)

\* api.packets.spectate_frames: the bundle goes to each entry of
\* session.spectators
spectate_frames_to_first(x, raw_data) ==
    IF x.s.spectators = <<>> THEN x
    ELSE Enqueue(x, Head(x.s.spectators), <<spectate_frames(raw_data)>>)

spectate_frames_handler(x, raw_data) ==
    IF x.s.spectators = <<>> THEN x
    ELSE [x EXCEPT !.r = EnqueueAll(x.r, x.s.spectators, <<spectate_frames(raw_data)>>)]

\* usecases.sessions.receive_message(session, message_content, sender)
ReceiveMessage(x, session, message_content, sender) ==
    Enqueue(x, session.id, <<send_message(sender.id, message_content, session.name)>>)

\* api.packets.send_private_message, lines 364-379: neither `if` returns
SendPrivateBlocked(x, recipient, recipient_session) ==
    IF recipient_session.friend_only_dms /\ ~InSeq(x.s.id, recipient_session.friends)
    THEN Enqueue(x, x.s.id, <<private_message_blocked(recipient)>>)
    ELSE x

SendPrivateSilenced(x, recipient, recipient_session, now) ==
    IF Silenced(recipient_session, now)
    THEN Enqueue(x, x.s.id, <<target_silenced(recipient)>>)
    ELSE x

SendPrivateDeliver(x, recipient, recipient_session, msg, now) ==
    ReceiveMessage(
        SendPrivateSilenced(SendPrivateBlocked(x, recipient, recipient_session),
                            recipient, recipient_session, now),
        recipient_session, msg, x.s)

\* str.strip() of the contents the model sends: a blank message is ""
Strip(content) == IF content = " " THEN "" ELSE content

send_private_message(x, message, now) ==
    IF Silenced(x.s, now) THEN x
    ELSE IF Strip(message.content) = "" THEN x
    ELSE IF SessionsFetchByName(x.r, x.a, message.recipient_username) = None THEN x
    ELSE SendPrivateDeliver(x, message.recipient_username,
                            SessionsFetchByName(x.r, x.a, message.recipient_username),
                            Strip(message.content), now)

(***************************************************************************)
(* models.match, repositories.matches and the match use cases.  A match    *)
(* keeps its 16 slots under the indices 0..15 of the source.               *)
(***************************************************************************)
NSlots == 16

HAS_USER == {"NOT_READY", "READY", "NO_MAP", "PLAYING", "COMPLETE"}

\* Slot()
Slot == [session_id |-> NoneInt, status |-> "OPEN", team |-> "NEUTRAL", mods |-> 0]

\* Match(id=..., name=..., host_id=..., password=...) as create_match builds it
Match(id, name, host_id, password) ==
    [id |-> id, name |-> name, host_id |-> host_id, password |-> password,
     slots |-> [i \in 0..(NSlots - 1) |-> Slot],
     refs |-> <<>>, team_type |-> "HEAD_TO_HEAD", in_progress |-> FALSE,
     tourney_clients |-> <<>>,
     mods |-> 0, mode |-> 0, map_id |-> NoneInt, map_md5 |-> "", map_title |-> "",
     freemod |-> FALSE, win_condition |-> "SCORE", seed |-> 0]

\* the first index a predicate holds at, or None
FirstSlot(match, Test(_)) ==
    IF \E i \in DOMAIN match.slots : Test(match.slots[i])
    THEN CHOOSE i \in DOMAIN match.slots :
            Test(match.slots[i]) /\ \A j \in DOMAIN match.slots : j < i => ~Test(match.slots[j])
    ELSE NoneInt

\* Match.get_slot_idx / get_slot: an empty slot holds None, which no int equals
get_slot_idx(match, session_id) ==
    FirstSlot(match, LAMBDA slot : slot.session_id # NoneInt /\ slot.session_id = session_id)

get_next_free_slot_idx(match) == FirstSlot(match, LAMBDA slot : slot.status = "OPEN")

\* Slot.copy_from
copy_from(slot, other) ==
    [slot EXCEPT !.session_id = other.session_id, !.status = other.status,
                 !.team = other.team, !.mods = other.mods]

\* Slot.reset: the first line assigns `self.user`, so session_id stays
reset(slot, new_status) ==
    [slot EXCEPT !.status = new_status, !.team = "NEUTRAL", !.mods = 0]

MultiChannelName(match_id) == PrefixMulti \o <<Digit(match_id)>>

\* the match as the match packets carry it (OsuMatch is modelled apart)
MatchWire(match, send_pw) == <<match.id, match.host_id, send_pw>>

update_match(match, send_pw) == Pkt("CHO_UPDATE_MATCH", MatchWire(match, send_pw))
match_start(match) == Pkt("CHO_MATCH_START", MatchWire(match, TRUE))
new_match(match) == Pkt("CHO_NEW_MATCH", MatchWire(match, TRUE))
match_join_fail == Pkt("CHO_MATCH_JOIN_FAIL", 0)
match_join_success(match) == Pkt("CHO_MATCH_JOIN_SUCCESS", MatchWire(match, TRUE))
dispose_match(match_id) == Pkt("CHO_DISPOSE_MATCH", match_id)
match_transfer_host == Pkt("CHO_MATCH_TRANSFER_HOST", 0)

\* repositories.matches
MatchesFetchById(r, id) == HGet(r.matches, id)

\* HGETALL matches:name, in the order of the ids
MatchesFetchAll(r) ==
    LET ids == SetToSeq({r.mname[n].id : n \in DOMAIN r.mname})
    IN [i \in 1..Len(ids) |->
           r.mname[CHOOSE n \in DOMAIN r.mname : r.mname[n].id = ids[i]]]

MatchesStore(x, match) ==
    [x EXCEPT !.r.matches = HSet(@, match.id, match),
              !.r.mname = HSet(@, make_safe_name(match.name), match)]

\* fetch_by_name, `assert ... is not None`, usecases.channels.enqueue_data
MatchesTell(x, channel_name, data) ==
    IF x.err THEN x
    ELSE IF ChannelsFetchByName(x.r, channel_name) = None THEN Raise(x)
    ELSE [x EXCEPT !.r = EnqueueAll(x.r, ChannelsFetchByName(x.r, channel_name).members,
                                    data)]

MatchesTellLobby(x, match, lobby) ==
    IF lobby THEN MatchesTell(x, ChanLobby, <<update_match(match, FALSE)>>) ELSE x

\* repositories.matches.update(match, lobby)
MatchesUpdate(x, match, lobby) ==
    IF x.err THEN x
    ELSE MatchesTellLobby(
            MatchesTell(MatchesStore(x, match), MultiChannelName(match.id),
                        <<update_match(match, TRUE)>>),
            match, lobby)

\* repositories.matches.delete
MatchesDelete(x, match) ==
    IF x.err THEN x
    ELSE [x EXCEPT !.r.matches = HDel(@, match.id),
                   !.r.mname = HDel(@, make_safe_name(match.name))]

\* usecases.sessions.join_match, lines 245-265: the slot to take, or None when
\* the join fails.  `slot_id := match.get_next_free_slot_idx() is None` binds
\* the comparison: False, which indexes slots as 0, when there is a free slot.
JoinMatchSlotId(session, match, password) ==
    IF Truthy(session.match) THEN NoneInt
    ELSE IF InSeq(session.id, match.tourney_clients) THEN NoneInt
    ELSE IF session.id = match.host_id THEN 0
    ELSE IF match.password # "" /\ password # match.password THEN NoneInt
    ELSE IF get_next_free_slot_idx(match) = NoneInt THEN NoneInt
    ELSE 0

\* lines 267-273
JoinMatchLobby(x) ==
    IF x.err THEN x
    ELSE IF InSeq(ChanLobby, x.s.channels) THEN LeaveChannel(x, ChanLobby) ELSE x

JoinMatchEnter(x, match) ==
    IF ChannelsFetchByName(x.r, MultiChannelName(match.id)) = None THEN Raise(x)
    ELSE JoinMatchLobby(
            JoinChannel(x, ChannelsFetchByName(x.r, MultiChannelName(match.id))).x)

\* lines 275-286
JoinMatchTaken(match, slot_id, session) ==
    [match EXCEPT !.slots[slot_id] =
        [@ EXCEPT !.team = IF match.team_type \in {"TEAM_VS", "TAG_TEAM_VS"}
                           THEN "RED" ELSE @,
                  !.status = "NOT_READY",
                  !.session_id = session.id]]

JoinMatchSeat(x, match) ==
    IF x.err THEN x
    ELSE MatchesUpdate(
            Enqueue([x EXCEPT !.s.match = match.id], x.s.id, <<match_join_success(match)>>),
            match, TRUE)

\* usecases.sessions.join_match(x.s, match, password)
JoinMatch(x, match, password) ==
    IF x.err THEN x
    ELSE IF JoinMatchSlotId(x.s, match, password) = NoneInt
    THEN Enqueue(x, x.s.id, <<match_join_fail>>)
    ELSE JoinMatchSeat(JoinMatchEnter(x, match),
                       JoinMatchTaken(match, JoinMatchSlotId(x.s, match, password), x.s))

\* usecases.sessions.leave_match, lines 297-307
LeaveMatchReset(x, match, idx) ==
    IF idx = NoneInt THEN [x |-> Raise(x), m |-> match]
    ELSE [x |-> x,
          m |-> [match EXCEPT !.slots[idx] =
                    reset(@, IF @.status = "LOCKED" THEN "LOCKED" ELSE "OPEN")]]

\* line 309
LeaveMatchChannel(w) == [w EXCEPT !.x = LeaveChannel(w.x, MultiChannelName(w.m.id))]

\* lines 324-334: the first slot with a user becomes the host
LeaveMatchNewHost(match) ==
    FirstSlot(match, LAMBDA slot : slot.status \in HAS_USER)

LeaveMatchTransfer(x, match, idx) ==
    IF x.s.id # match.host_id \/ idx = NoneInt THEN [x |-> x, m |-> match]
    ELSE [x |-> Enqueue(x, match.slots[idx].session_id, <<match_transfer_host>>),
          m |-> [match EXCEPT !.host_id = match.slots[idx].session_id]]

LeaveMatchRefs(w, session_id) ==
    [w EXCEPT !.m.refs = IF InSeq(session_id, @) THEN RemoveFirst(@, session_id) ELSE @]

LeaveMatchKept(w) == MatchesUpdate(w.x, w.m, TRUE)

\* lines 311-340
LeaveMatchSettle(w) ==
    IF w.x.err THEN w.x
    ELSE IF \A i \in DOMAIN w.m.slots : w.m.slots[i].session_id = NoneInt
    THEN MatchesTell(MatchesDelete(w.x, w.m), ChanLobby, <<dispose_match(w.m.id)>>)
    ELSE LeaveMatchKept(LeaveMatchRefs(
            LeaveMatchTransfer(w.x, w.m, LeaveMatchNewHost(w.m)), w.x.s.id))

LeaveMatchDone(x) == IF x.err THEN x ELSE [x EXCEPT !.s.match = NoneInt]

\* usecases.sessions.leave_match(x.s, match)
LeaveMatch(x, match) ==
    IF x.err \/ ~Truthy(x.s.match) THEN x
    ELSE LeaveMatchDone(LeaveMatchSettle(LeaveMatchChannel(
            LeaveMatchReset(x, match, get_slot_idx(match, x.s.id)))))

\* usecases.matches.start
StartPlaying(match) ==
    [match EXCEPT !.in_progress = TRUE,
                  !.slots = [i \in DOMAIN @ |->
                                IF @[i].status \in HAS_USER /\ @[i].status # "NO_MAP"
                                THEN [@[i] EXCEPT !.status = "PLAYING"] ELSE @[i]]]

MissingMap(match) ==
    {match.slots[i].session_id : i \in {j \in DOMAIN match.slots : match.slots[j].status = "NO_MAP"}}

\* usecases.matches.enqueue_data(match.id, data, lobby=False, immune)
StartTell(x, match) ==
    IF ChannelsFetchByName(x.r, MultiChannelName(match.id)) = None THEN Raise(x)
    ELSE [x EXCEPT !.r =
            EnqueueAll(x.r,
                       SelectSeq(ChannelsFetchByName(x.r, MultiChannelName(match.id)).members,
                                 LAMBDA id : id \notin MissingMap(match)),
                       <<match_start(StartPlaying(match))>>)]

MatchesStart(x, match) == MatchesUpdate(StartTell(x, match), StartPlaying(match), TRUE)

(***************************************************************************)
(* api.packets: the lobby and match handlers.  Each takes the fields its   *)
(* packet model reads from the payload.                                    *)
(***************************************************************************)
MultiplayerSilenced == "Multiplayer is not available while silenced."

\* max(match.id for match in matches): ValueError on no match
MaxId(matches) ==
    CHOOSE id \in {matches[i].id : i \in 1..Len(matches)} :
        \A i \in 1..Len(matches) : matches[i].id <= id

CreateMatchJoin(x, match) ==
    JoinMatch(ChannelsUpdate(x, Channel(MultiChannelName(match.id), TRUE, TRUE, TRUE, TRUE)),
              match, match.password)

\* lines 575-602, with the list fetch_all returned
CreateMatchFrom(x, matches, packet_match) ==
    IF matches = <<>> THEN Raise(x)
    ELSE CreateMatchJoin(x, Match(MaxId(matches) + 1, packet_match.name,
                                  x.s.id, packet_match.password))

create_match(x, packet_match, now) ==
    IF Silenced(x.s, now)
    THEN Enqueue(x, x.s.id, <<match_join_fail, notification(MultiplayerSilenced)>>)
    ELSE CreateMatchFrom(x, MatchesFetchAll(x.r), packet_match)

join_match(x, match_id, password, now) ==
    IF Silenced(x.s, now)
    THEN Enqueue(x, x.s.id, <<match_join_fail, notification(MultiplayerSilenced)>>)
    ELSE IF MatchesFetchById(x.r, match_id) = None
    THEN Enqueue(x, x.s.id, <<match_join_fail>>)
    ELSE JoinMatch(x, MatchesFetchById(x.r, match_id), password)

leave_match(x) ==
    IF ~Truthy(x.s.match) THEN x
    ELSE IF MatchesFetchById(x.r, x.s.match) = None THEN x
    ELSE LeaveMatch(x, MatchesFetchById(x.r, x.s.match))

\* `if 0 <= packet.slot_id < 16: return` comes first in both handlers below;
\* match.slots[packet.slot_id] then takes -16..-1 from the end of the list
SlotIndex(slot_id) ==
    IF slot_id < 0 /\ slot_id >= 0 - NSlots THEN slot_id + NSlots ELSE NoneInt

ChangeSlotMove(x, match, old, new) ==
    IF old = NoneInt \/ new = NoneInt THEN Raise(x)
    ELSE IF match.slots[new].status # "OPEN" THEN x
    ELSE MatchesUpdate(
            x,
            [[match EXCEPT !.slots[new] = copy_from(@, match.slots[old])]
                EXCEPT !.slots[old] = reset(@, "OPEN")],
            TRUE)

change_match_slot(x, slot_id) ==
    IF ~Truthy(x.s.match) THEN x
    ELSE IF 0 <= slot_id /\ slot_id < NSlots THEN x
    ELSE IF MatchesFetchById(x.r, x.s.match) = None THEN Raise(x)
    ELSE ChangeSlotMove(x, MatchesFetchById(x.r, x.s.match),
                        get_slot_idx(MatchesFetchById(x.r, x.s.match), x.s.id),
                        SlotIndex(slot_id))

MatchReadySet(x, match, idx) ==
    IF idx = NoneInt THEN Raise(x)
    ELSE MatchesUpdate(x, [match EXCEPT !.slots[idx].status = "READY"], TRUE)

match_ready(x) ==
    IF ~Truthy(x.s.match) THEN x
    ELSE IF MatchesFetchById(x.r, x.s.match) = None THEN Raise(x)
    ELSE MatchReadySet(x, MatchesFetchById(x.r, x.s.match),
                       get_slot_idx(MatchesFetchById(x.r, x.s.match), x.s.id))

\* lines 704-716: `match.get_slot(packet.slot_id)` looks the number up among
\* the session ids
LockSlotSet(x, match, idx) ==
    IF x.s.id # match.host_id THEN x
    ELSE IF idx = NoneInt THEN Raise(x)
    ELSE IF match.slots[idx].status = "LOCKED"
    THEN MatchesUpdate(x, [match EXCEPT !.slots[idx].status = "OPEN"], TRUE)
    ELSE IF match.slots[idx].session_id = x.s.id THEN x
    ELSE MatchesUpdate(x, [match EXCEPT !.slots[idx].status = "LOCKED"], TRUE)

lock_slot(x, slot_id) ==
    IF ~Truthy(x.s.match) THEN x
    ELSE IF 0 <= slot_id /\ slot_id < NSlots THEN x
    ELSE IF MatchesFetchById(x.r, x.s.match) = None THEN Raise(x)
    ELSE LockSlotSet(x, MatchesFetchById(x.r, x.s.match),
                     get_slot_idx(MatchesFetchById(x.r, x.s.match), slot_id))

start_match(x) ==
    IF ~Truthy(x.s.match) THEN x
    ELSE IF MatchesFetchById(x.r, x.s.match) = None THEN Raise(x)
    ELSE IF x.s.id # MatchesFetchById(x.r, x.s.match).host_id THEN x
    ELSE MatchesStart(x, MatchesFetchById(x.r, x.s.match))

\* api.packets.join_lobby / leave_lobby
JoinLobbyMatches(matches) == [i \in 1..Len(matches) |-> new_match(matches[i])]

join_lobby(x) ==
    Enqueue([x EXCEPT !.s.in_lobby = TRUE], x.s.id, JoinLobbyMatches(MatchesFetchAll(x.r)))

leave_lobby(x) == [x EXCEPT !.s.in_lobby = FALSE]

\* api.packets.join_channel: `session in channel.members` compares a Session
\* with ids and is never true
join_channel(x, channel_name) ==
    IF ChannelsFetchByName(x.r, IF channel_name = WireSpectator /\ Truthy(x.s.spectating)
                                THEN SpecChannelName(x.s.spectating)
                                ELSE channel_name) = None
    THEN x
    ELSE JoinChannel(x, ChannelsFetchByName(
                            x.r, IF channel_name = WireSpectator /\ Truthy(x.s.spectating)
                                 THEN SpecChannelName(x.s.spectating)
                                 ELSE channel_name)).x

\* api.packets.leave_channel: `session not in channel.members` is always
\* true, so the handler returns before usecases.sessions.leave_channel
leave_channel(x, channel_name) == x

(***************************************************************************)
(* api.packets: the handlers of a match in hand: host commands and the     *)
(* packets players send while a map is played.                             *)
(***************************************************************************)
match_complete_packet == Pkt("CHO_MATCH_COMPLETE", 0)
match_player_failed(slot_id) == Pkt("CHO_MATCH_PLAYER_FAILED", slot_id)

\* a & b on non-negative ints
RECURSIVE BitAnd(_, _)
BitAnd(a, b) ==
    IF a = 0 \/ b = 0 THEN 0
    ELSE (a % 2) * (b % 2) + 2 * BitAnd(a \div 2, b \div 2)

\* Mods.SPEED_MODS.  constants.mods is not among the sources; the value is
\* DOUBLETIME | HALFTIME | NIGHTCORE of the osu! mod bits (64, 256, 512).
SPEED_MODS == 832

\* the players the fan-outs leave out: slots with a user whose status is not
\* the one given
NotIn(match, status) ==
    {match.slots[i].session_id :
        i \in {j \in DOMAIN match.slots :
                  /\ match.slots[j].status \in HAS_USER
                  /\ match.slots[j].status # status
                  /\ match.slots[j].session_id # NoneInt}}

\* usecases.matches.enqueue_data(match.id, data, lobby=False, immune)
MatchTellExcept(x, match, immune, data) ==
    IF x.err THEN x
    ELSE IF ChannelsFetchByName(x.r, MultiChannelName(match.id)) = None THEN Raise(x)
    ELSE [x EXCEPT !.r =
            EnqueueAll(x.r,
                       SelectSeq(ChannelsFetchByName(x.r, MultiChannelName(match.id)).members,
                                 LAMBDA id : id \notin immune),
                       data)]

\* Match.unready_users(expected)
unready_users(match, expected) ==
    [match EXCEPT !.slots = [i \in DOMAIN @ |->
                                IF @[i].status = expected
                                THEN [@[i] EXCEPT !.status = "NOT_READY"] ELSE @[i]]]

\* Match.get_host_slot, as an index
get_host_slot_idx(match) ==
    FirstSlot(match, LAMBDA slot : slot.status \in HAS_USER /\ slot.session_id = match.host_id)

\* transfer_host, lines 1029-1045
TransferHostTo(x, match, idx) ==
    IF x.s.id # match.host_id THEN x
    ELSE IF idx = NoneInt THEN Raise(x)
    ELSE IF ~Truthy(match.slots[idx].session_id) THEN x
    ELSE MatchesUpdate(Enqueue(x, match.slots[idx].session_id, <<match_transfer_host>>),
                       [match EXCEPT !.host_id = match.slots[idx].session_id], TRUE)

transfer_host(x, slot_id) ==
    IF ~Truthy(x.s.match) THEN x
    ELSE IF 0 <= slot_id /\ slot_id < NSlots THEN x
    ELSE IF MatchesFetchById(x.r, x.s.match) = None THEN Raise(x)
    ELSE TransferHostTo(x, MatchesFetchById(x.r, x.s.match), SlotIndex(slot_id))

\* the password stored without the host test
ChangePasswordByAnyone(x, match, password) ==
    MatchesUpdate(x, [match EXCEPT !.password = password], TRUE)

ChangePasswordSet(x, match, password) ==
    IF x.s.id # match.host_id THEN x
    ELSE MatchesUpdate(x, [match EXCEPT !.password = password], TRUE)

change_password(x, password) ==
    IF ~Truthy(x.s.match) THEN x
    ELSE IF MatchesFetchById(x.r, x.s.match) = None THEN Raise(x)
    ELSE ChangePasswordSet(x, MatchesFetchById(x.r, x.s.match), password)

\* change_match_settings, lines 734-753: freemod switched on or off
SettingsFreemodOn(match) ==
    [match EXCEPT !.freemod = TRUE,
                  !.slots = [i \in DOMAIN @ |->
                                IF @[i].status \in HAS_USER
                                THEN [@[i] EXCEPT !.mods = match.mods - BitAnd(match.mods, SPEED_MODS)]
                                ELSE @[i]],
                  !.mods = BitAnd(@, SPEED_MODS)]

SettingsFreemodOff(match, host) ==
    [match EXCEPT !.freemod = FALSE,
                  !.mods = @ + BitAnd(match.slots[host].mods, SPEED_MODS)
                             - BitAnd(@, BitAnd(match.slots[host].mods, SPEED_MODS)),
                  !.slots = [i \in DOMAIN @ |->
                                IF @[i].status \in HAS_USER THEN [@[i] EXCEPT !.mods = 0]
                                ELSE @[i]]]

SettingsFreemod(w, packet_match) ==
    IF packet_match.freemod = w.m.freemod THEN w
    ELSE IF packet_match.freemod THEN [w EXCEPT !.m = SettingsFreemodOn(@)]
    ELSE IF get_host_slot_idx(w.m) = NoneInt THEN [w EXCEPT !.x = Raise(@)]
    ELSE [w EXCEPT !.m = SettingsFreemodOff(@, get_host_slot_idx(w.m))]

\* lines 755-768: the map
SettingsMap(w, packet_match) ==
    IF w.x.err THEN w
    ELSE IF packet_match.map_id = 0 - 1
    THEN [w EXCEPT !.m = [unready_users(@, "READY")
                             EXCEPT !.map_id = 0 - 1, !.map_md5 = "", !.map_title = ""]]
    ELSE IF w.m.map_id = 0 - 1
    THEN [w EXCEPT !.m = [@ EXCEPT !.map_id = packet_match.map_id,
                                   !.map_md5 = packet_match.map_md5,
                                   !.map_title = packet_match.map_name,
                                   !.mode = packet_match.mode]]
    ELSE w

\* lines 770-784: the teams, the win condition and the name
SettingsTeams(w, packet_match) ==
    IF w.x.err \/ w.m.team_type = packet_match.team_type THEN w
    ELSE [w EXCEPT !.m =
            [@ EXCEPT !.team_type = packet_match.team_type,
                      !.slots = [i \in DOMAIN @ |->
                                    IF @[i].status \in HAS_USER
                                    THEN [@[i] EXCEPT !.team =
                                            IF packet_match.team_type \in {"HEAD_TO_HEAD", "TAG_COOP"}
                                            THEN "NEUTRAL" ELSE "RED"]
                                    ELSE @[i]]]]

SettingsNames(w, packet_match) ==
    IF w.x.err THEN w
    ELSE [w EXCEPT !.m = [@ EXCEPT !.win_condition = packet_match.win_condition,
                                   !.name = packet_match.name]]

SettingsStore(w) == MatchesUpdate(w.x, w.m, TRUE)

ChangeSettingsSet(x, match, packet_match) ==
    IF x.s.id # match.host_id THEN x
    ELSE SettingsStore(SettingsNames(SettingsTeams(SettingsMap(
            SettingsFreemod([x |-> x, m |-> match], packet_match),
            packet_match), packet_match), packet_match))

change_match_settings(x, packet_match) ==
    IF ~Truthy(x.s.match) THEN x
    ELSE IF MatchesFetchById(x.r, x.s.match) = None THEN Raise(x)
    ELSE ChangeSettingsSet(x, MatchesFetchById(x.r, x.s.match), packet_match)

\* match_complete, lines 848-869: nothing is stored while a slot is PLAYING
MatchCompleteEnd(match) ==
    [unready_users(match, "COMPLETE") EXCEPT !.in_progress = FALSE]

MatchCompleteBarrier(x, match) ==
    IF \E i \in DOMAIN match.slots : match.slots[i].status = "PLAYING" THEN x
    ELSE MatchesUpdate(
            MatchTellExcept(x, match, NotIn(match, "COMPLETE"), <<match_complete_packet>>),
            MatchCompleteEnd(match), TRUE)

MatchCompleteSet(x, match, idx) ==
    IF idx = NoneInt THEN Raise(x)
    ELSE MatchCompleteBarrier(x, [match EXCEPT !.slots[idx].status = "COMPLETE"])

match_complete(x) ==
    IF ~Truthy(x.s.match) THEN x
    ELSE IF MatchesFetchById(x.r, x.s.match) = None THEN Raise(x)
    ELSE MatchCompleteSet(x, MatchesFetchById(x.r, x.s.match),
                          get_slot_idx(MatchesFetchById(x.r, x.s.match), x.s.id))

\* player_failed
PlayerFailedTell(x, match, idx) ==
    IF idx = NoneInt THEN Raise(x)
    ELSE MatchesUpdate(
            MatchTellExcept(x, match, NotIn(match, "PLAYING"), <<match_player_failed(idx)>>),
            match, FALSE)

player_failed(x) ==
    IF ~Truthy(x.s.match) THEN x
    ELSE IF MatchesFetchById(x.r, x.s.match) = None THEN Raise(x)
    ELSE PlayerFailedTell(x, MatchesFetchById(x.r, x.s.match),
                          get_slot_idx(MatchesFetchById(x.r, x.s.match), x.s.id))

\* missing_beatmap
MissingBeatmapSet(x, match, idx) ==
    IF idx = NoneInt THEN Raise(x)
    ELSE MatchesUpdate(x, [match EXCEPT !.slots[idx].status = "NO_MAP"], FALSE)

missing_beatmap(x) ==
    IF ~Truthy(x.s.match) THEN x
    ELSE IF MatchesFetchById(x.r, x.s.match) = None THEN Raise(x)
    ELSE MissingBeatmapSet(x, MatchesFetchById(x.r, x.s.match),
                           get_slot_idx(MatchesFetchById(x.r, x.s.match), x.s.id))

(***************************************************************************)
(* Requests of logged-in sessions.  Each action below is one request whose *)
(* body holds one packet: handle_packet_data picks the map, runs the       *)
(* handler and writes the session back unless the packet was a LOGOUT.     *)
(* The server is looked at after four logins: Al, B o and Cy at time 0, Di *)
(* (id 20) at time 1, which is also the time of every request.             *)
(***************************************************************************)
MaxPlay == 3     \* requests in one behaviour

NameDi == <<"D", "i">>
DiId == 20

PlayIds == AccountIds \cup {DiId}

\* the users table: Cy has Al as a friend
PlayAccounts ==
    [id \in PlayIds |->
        IF id = DiId
        THEN [InitAccounts[1] EXCEPT !.id = DiId, !.name = NameDi]
        ELSE IF id = 3 THEN [InitAccounts[3] EXCEPT !.friends = <<1>>]
        ELSE InitAccounts[id]]

PlayRedis ==
    [sid |-> EmptyHash, sname |-> EmptyHash, stok |-> EmptyHash, slist |-> <<>>,
     queues |-> [u \in PlayIds |-> <<>>],
     channels |-> InitChannels,
     matches |-> EmptyHash, mname |-> EmptyHash]

PlayLoginAl == LoginAll(PlayRedis, PlayAccounts,
                        LoginInput(NameAl, "good", TRUE, SomeAdapters, FALSE), 0, 1)
PlayLoginBo == LoginAll(PlayLoginAl.r, PlayLoginAl.a,
                        LoginInput(NameBo, "good", TRUE, SomeAdapters, FALSE), 0, 2)
PlayLoginCy == LoginAll(PlayLoginBo.r, PlayLoginBo.a,
                        LoginInput(NameCy, "good", TRUE, SomeAdapters, TRUE), 0, 3)
PlayLoginDi == LoginAll(PlayLoginCy.r, PlayLoginCy.a,
                        LoginInput(NameDi, "good", TRUE, SomeAdapters, FALSE), 1, 4)

PlayTokens == 1..4
PublicTokens == {1, 3, 4}

\* lines 194-196 and 206-207 around the one handler of the batch
PlayGate(x, allow_restricted, handled) ==
    IF HasPriv(x.s.privileges, "USER_PUBLIC") \/ allow_restricted THEN handled ELSE x

PlayClose(x, should_update) ==
    IF x.err \/ ~should_update THEN x ELSE SessionsUpdate(x, x.s)

PlayEntry(r, a, token) ==
    [r |-> r, a |-> a, s |-> SessionsFetchByToken(r, a, token), err |-> FALSE]

Op(name, by, arg) == [name |-> name, by |-> by, arg |-> arg]

CanPlay(token) ==
    /\ Len(hist.log) < MaxPlay
    /\ token \in DOMAIN redis.stok

PlayDone(x0, x, op) ==
    /\ redis' = x.r
    /\ accounts' = x.a
    /\ resp' = [kind |-> "play", op |-> op, err |-> x.err,
                session |-> x0.s, left |-> x.s, before |-> x0.r]
    /\ hist' = [hist EXCEPT !.log =
                    Append(@, [name |-> op.name, by |-> op.by, arg |-> op.arg,
                               was |-> x0.s.match, now |-> x.s.match,
                               err |-> x.err])]
    /\ UNCHANGED <<locks, tasks, clock, uuid>>

InitPlayAt(r, a) ==
    /\ redis = r
    /\ accounts = a
    /\ locks = {}
    /\ tasks = [t \in Tasks |-> Idle]
    /\ clock = 1
    /\ uuid = 4
    /\ resp = None
    /\ hist = [log |-> <<>>]

(***************************************************************************)
(* Spectating, private messages and logout                                 *)
(***************************************************************************)
PlayHosts == {1, 3}
PlayRecipients == {1, 3}
FrameBundle == <<7>>

play_start_spectating(token, target_id) ==
    /\ CanPlay(token)
    /\ \E x0 \in {PlayEntry(redis, accounts, token)} :
       \E x \in {PlayClose(PlayGate(x0, FALSE, start_spectating(x0, target_id)), TRUE)} :
          PlayDone(x0, x, Op("start_spectating", x0.s.id, target_id))

play_stop_spectating(token) ==
    /\ CanPlay(token)
    /\ \E x0 \in {PlayEntry(redis, accounts, token)} :
       \E x \in {PlayClose(PlayGate(x0, FALSE, stop_spectating(x0)), TRUE)} :
          PlayDone(x0, x, Op("stop_spectating", x0.s.id, 0))

play_spectate_frames(token) ==
    /\ CanPlay(token)
    /\ \E x0 \in {PlayEntry(redis, accounts, token)} :
       \E x \in {PlayClose(PlayGate(x0, FALSE, spectate_frames_handler(x0, FrameBundle)), TRUE)} :
          PlayDone(x0, x, Op("spectate_frames", x0.s.id, 0))

play_send_private_message(token, to) ==
    /\ CanPlay(token)
    /\ \E x0 \in {PlayEntry(redis, accounts, token)} :
       \E x \in {PlayClose(
                    PlayGate(x0, FALSE,
                             send_private_message(
                                 x0, [content |-> "hi",
                                      recipient_username |-> PlayAccounts[to].name],
                                 clock)),
                    TRUE)} :
          PlayDone(x0, x, Op("send_private_message", x0.s.id, to))

play_user_logout(token) ==
    /\ CanPlay(token)
    /\ \E x0 \in {PlayEntry(redis, accounts, token)} :
       \E x \in {PlayClose(PlayGate(x0, TRUE, user_logout(x0, <<>>, clock)), FALSE)} :
          PlayDone(x0, x, Op("user_logout", x0.s.id, 0))

InitSpectate == InitPlayAt(PlayLoginDi.r, PlayLoginDi.a)

NextSpectate ==
    \/ \E token \in PublicTokens, target_id \in PlayHosts :
          play_start_spectating(token, target_id)
    \/ \E token \in PublicTokens : play_stop_spectating(token)
    \/ \E token \in PublicTokens : play_spectate_frames(token)
    \/ \E token \in PublicTokens, to \in PlayRecipients : play_send_private_message(token, to)
    \/ \E token \in PlayTokens : play_user_logout(token)

SpecSpectate == InitSpectate /\ [][NextSpectate]_vars

(***************************************************************************)
(* Matches.  create_match takes the id after the largest one in the store, *)
(* so the store is looked at both empty, as a new server has it, and       *)
(* holding match 1, hosted by Al, as an earlier process wrote it.  Di has  *)
(* joined the lobby and #lobby before.                                     *)
(***************************************************************************)
MaxMatchOps == 3     \* match requests in one behaviour

PlayDiLobby ==
    PlayClose(join_channel(
                  PlayEntry(PlayClose(join_lobby(PlayEntry(PlayLoginDi.r, PlayLoginDi.a, 4)),
                                      TRUE).r,
                            PlayLoginDi.a, 4),
                  ChanLobby),
              TRUE)

MatchNameM == <<"m">>
MatchNameN == <<"n">>

\* match 1 as create_match leaves it once the id is chosen
PlaySeeded ==
    PlayClose(CreateMatchJoin(PlayEntry(PlayDiLobby.r, PlayDiLobby.a, 1),
                              Match(1, MatchNameM, 1, "pw")),
              TRUE)

InitMatch ==
    \E seeded \in BOOLEAN :
       InitPlayAt(IF seeded THEN PlaySeeded.r ELSE PlayDiLobby.r, PlayDiLobby.a)

CanPlayMatch(token) ==
    /\ Len(hist.log) < MaxMatchOps
    /\ token \in DOMAIN redis.stok

MatchIds == {1, 2}
Passwords == {"pw", "no"}

play_create_match(token) ==
    /\ CanPlayMatch(token)
    /\ \E x0 \in {PlayEntry(redis, accounts, token)} :
       \E x \in {PlayClose(
                    PlayGate(x0, FALSE,
                             create_match(x0, [name |-> MatchNameN, password |-> "pw"], clock)),
                    TRUE)} :
          PlayDone(x0, x, Op("create_match", x0.s.id, 0))

\* the wrong password is tried on match 2 only
play_join_match(token, match_id, password) ==
    /\ CanPlayMatch(token)
    /\ password = "pw" \/ match_id = 2
    /\ \E x0 \in {PlayEntry(redis, accounts, token)} :
       \E x \in {PlayClose(PlayGate(x0, FALSE, join_match(x0, match_id, password, clock)),
                           TRUE)} :
          PlayDone(x0, x, Op(IF password = "pw" THEN "join_match" ELSE "join_match_wrong",
                             x0.s.id, match_id))

play_leave_match(token) ==
    /\ CanPlayMatch(token)
    /\ \E x0 \in {PlayEntry(redis, accounts, token)} :
       \E x \in {PlayClose(PlayGate(x0, FALSE, leave_match(x0)), TRUE)} :
          PlayDone(x0, x, Op("leave_match", x0.s.id, 0))

play_change_match_slot(token, slot_id) ==
    /\ CanPlayMatch(token)
    /\ \E x0 \in {PlayEntry(redis, accounts, token)} :
       \E x \in {PlayClose(PlayGate(x0, FALSE, change_match_slot(x0, slot_id)), TRUE)} :
          PlayDone(x0, x, Op("change_match_slot", x0.s.id, slot_id))

play_match_ready(token) ==
    /\ CanPlayMatch(token)
    /\ \E x0 \in {PlayEntry(redis, accounts, token)} :
       \E x \in {PlayClose(PlayGate(x0, FALSE, match_ready(x0)), TRUE)} :
          PlayDone(x0, x, Op("match_ready", x0.s.id, 0))

play_lock_slot(token, slot_id) ==
    /\ CanPlayMatch(token)
    /\ \E x0 \in {PlayEntry(redis, accounts, token)} :
       \E x \in {PlayClose(PlayGate(x0, FALSE, lock_slot(x0, slot_id)), TRUE)} :
          PlayDone(x0, x, Op("lock_slot", x0.s.id, slot_id))

play_start_match(token) ==
    /\ CanPlayMatch(token)
    /\ \E x0 \in {PlayEntry(redis, accounts, token)} :
       \E x \in {PlayClose(PlayGate(x0, FALSE, start_match(x0)), TRUE)} :
          PlayDone(x0, x, Op("start_match", x0.s.id, 0))

play_transfer_host(token, slot_id) ==
    /\ CanPlayMatch(token)
    /\ \E x0 \in {PlayEntry(redis, accounts, token)} :
       \E x \in {PlayClose(PlayGate(x0, FALSE, transfer_host(x0, slot_id)), TRUE)} :
          PlayDone(x0, x, Op("transfer_host", x0.s.id, slot_id))

play_join_lobby(token) ==
    /\ CanPlayMatch(token)
    /\ \E x0 \in {PlayEntry(redis, accounts, token)} :
       \E x \in {PlayClose(PlayGate(x0, FALSE, join_lobby(x0)), TRUE)} :
          PlayDone(x0, x, Op("join_lobby", x0.s.id, 0))

NextMatch ==
    \/ \E token \in PublicTokens : play_create_match(token)
    \/ \E token \in PublicTokens, match_id \in MatchIds, password \in Passwords :
          play_join_match(token, match_id, password)
    \/ \E token \in PublicTokens : play_leave_match(token)
    \/ \E token \in PublicTokens : play_change_match_slot(token, 0 - 1)
    \/ \E token \in PublicTokens : play_match_ready(token)
    \/ \E token \in PublicTokens : play_lock_slot(token, DiId)
    \/ \E token \in PublicTokens : play_start_match(token)
    \/ \E token \in PublicTokens : play_transfer_host(token, 0 - 1)
    \/ \E token \in PublicTokens : play_join_lobby(token)

SpecMatch == InitMatch /\ [][NextMatch]_vars

(***************************************************************************)
(* packets.typing.OsuMatch and usecases.packets.write_match: the bytes of  *)
(* a match on the wire.  A str is kept as the bytes of its encoding.       *)
(***************************************************************************)
StatusValue(status) ==
    CASE status = "OPEN" -> 1 [] status = "LOCKED" -> 2 [] status = "NOT_READY" -> 4
      [] status = "READY" -> 8 [] status = "NO_MAP" -> 16 [] status = "PLAYING" -> 32
      [] status = "COMPLETE" -> 64 [] status = "QUIT" -> 128

SlotStatuses ==
    {"OPEN", "LOCKED", "NOT_READY", "READY", "NO_MAP", "PLAYING", "COMPLETE", "QUIT"}

TeamValue(team) == CASE team = "NEUTRAL" -> 0 [] team = "BLUE" -> 1 [] team = "RED" -> 2

MatchTeams == {"NEUTRAL", "BLUE", "RED"}

TeamTypeValue(team_type) ==
    CASE team_type = "HEAD_TO_HEAD" -> 0 [] team_type = "TAG_COOP" -> 1
      [] team_type = "TEAM_VS" -> 2 [] team_type = "TAG_TEAM_VS" -> 3

MatchTeamTypes == {"HEAD_TO_HEAD", "TAG_COOP", "TEAM_VS", "TAG_TEAM_VS"}

WinConditionValue(win_condition) ==
    CASE win_condition = "SCORE" -> 0 [] win_condition = "ACCURACY" -> 1
      [] win_condition = "COMBO" -> 2 [] win_condition = "SCOREV2" -> 3

MatchWinConditions == {"SCORE", "ACCURACY", "COMBO", "SCOREV2"}

\* str.encode() of the names and passwords in use
Ord(c) == CASE c = "m" -> 109 [] c = "n" -> 110 [] c = "o" -> 111
            [] c = "p" -> 112 [] c = "w" -> 119

Utf8(s) == CASE s = "" -> <<>> [] s = "pw" -> <<Ord("p"), Ord("w")>>
             [] s = "no" -> <<Ord("n"), Ord("o")>>

EncodeName(name) == [i \in 1..Len(name) |-> Ord(name[i])]

\* i8.write and bool: one byte, two's complement
I8(n) == <<n % 256>>

Flag(b) == IF b THEN 1 ELSE 0

\* the length of String.write, 7 bits a byte, low bits first
RECURSIVE Uleb128(_)
Uleb128(val) ==
    IF val \div 128 # 0 THEN <<(val % 128) + 128>> \o Uleb128(val \div 128)
    ELSE <<val % 128>>

\* String.write
StringWrite(encoded_string) ==
    IF Len(encoded_string) = 0 THEN <<0>>
    ELSE <<11>> \o Uleb128(Len(encoded_string)) \o encoded_string

\* usecases.packets.write_match: slot_ids keeps the session ids that are set,
\* one after the other
write_match(match) ==
    [id |-> match.id,
     in_progress |-> match.in_progress,
     mods |-> match.mods,
     password |-> Utf8(match.password),
     name |-> EncodeName(match.name),
     map_name |-> Utf8(match.map_title),
     map_id |-> IF Truthy(match.map_id) THEN match.map_id ELSE 0 - 1,
     map_md5 |-> Utf8(match.map_md5),
     slot_ids |-> SelectSeq([i \in 1..NSlots |-> match.slots[i - 1].session_id], Truthy),
     win_condition |-> match.win_condition,
     team_type |-> match.team_type,
     freemod |-> match.freemod,
     seed |-> match.seed,
     slot_statuses |-> [i \in 1..NSlots |-> match.slots[i - 1].status],
     slot_teams |-> [i \in 1..NSlots |-> match.slots[i - 1].team],
     slot_mods |-> [i \in 1..NSlots |-> match.slots[i - 1].mods],
     mode |-> match.mode,
     host_id |-> match.host_id]

\* OsuMatch.serialise, up to the slot teams
SerialisePassword(m, send_pw) ==
    IF m.password # <<>>
    THEN (IF send_pw THEN StringWrite(m.password) ELSE <<11, 0>>)
    ELSE <<0>>

SerialiseHead(m, send_pw) ==
    U16(m.id) \o I8(Flag(m.in_progress)) \o I8(0) \o U32(m.mods)
       \o StringWrite(m.name) \o SerialisePassword(m, send_pw)
       \o StringWrite(m.map_name) \o U32(m.map_id) \o StringWrite(m.map_md5)
       \o [i \in 1..Len(m.slot_statuses) |-> StatusValue(m.slot_statuses[i])]
       \o [i \in 1..Len(m.slot_teams) |-> TeamValue(m.slot_teams[i])]

\* `self.slot_ids[idx]` with idx the index of the slot: IndexError past the end
SlotIdsInRange(m) ==
    \A i \in 1..Len(m.slot_statuses) :
       m.slot_statuses[i] \in HAS_USER => i <= Len(m.slot_ids)

SerialiseIds(m) ==
    Concat([i \in 1..Len(m.slot_statuses) |->
               IF m.slot_statuses[i] \in HAS_USER THEN U32(m.slot_ids[i]) ELSE <<>>])

SerialiseTail(m) ==
    U32(m.host_id) \o I8(m.mode) \o I8(WinConditionValue(m.win_condition))
       \o I8(TeamTypeValue(m.team_type)) \o I8(Flag(m.freemod))
       \o (IF m.freemod THEN Concat([i \in 1..Len(m.slot_mods) |-> U32(m.slot_mods[i])])
           ELSE <<>>)
       \o U32(m.seed)

\* OsuMatch.serialise(send_pw)
OsuMatchSerialise(m, send_pw) ==
    IF ~SlotIdsInRange(m) THEN [err |-> TRUE, bytes |-> <<>>]
    ELSE [err |-> FALSE,
          bytes |-> SerialiseHead(m, send_pw) \o SerialiseIds(m) \o SerialiseTail(m)]

\* a reader: the fields read so far, the bytes left, whether an enum refused
Cursor(data) == [v |-> <<>>, data |-> data, err |-> FALSE]

Put(c, field, value, used) ==
    [c EXCEPT !.v = [f \in DOMAIN @ \cup {field} |-> IF f = field THEN value ELSE @[f]],
              !.data = Drop(@, used)]

\* i8.read, i16.read, i32.read
ReadSigned(c, field, n) == Put(c, field, ReadInt(Take(c.data, n), TRUE), n)

ReadBool(c, field) == Put(c, field, ReadInt(Take(c.data, 1), TRUE) = 1, 1)

\* the length loop of String.read: the value and the bytes it took
RECURSIVE UlebRead(_)
UlebRead(data) ==
    IF data = <<>> THEN [length |-> 0, used |-> 1]
    ELSE IF Head(data) < 128 THEN [length |-> Head(data), used |-> 1]
    ELSE [length |-> (Head(data) % 128) + 128 * UlebRead(Tail(data)).length,
          used |-> 1 + UlebRead(Tail(data)).used]

\* String.read
ReadString(c, field) ==
    IF ReadInt(Take(c.data, 1), FALSE) # 11 THEN Put(c, field, <<>>, 1)
    ELSE Put(c, field,
             Take(Drop(c.data, 1 + UlebRead(Drop(c.data, 1)).used),
                  UlebRead(Drop(c.data, 1)).length),
             1 + UlebRead(Drop(c.data, 1)).used + UlebRead(Drop(c.data, 1)).length)

\* [Enum(i8.read(packet)) for _ in range(16)]: a value outside the enum raises;
\* `value` gives the number of each name of the enum
ReadEnums(c, field, value) ==
    IF \A i \in 1..NSlots :
          \E s \in DOMAIN value : value[s] = ReadInt(Take(Drop(c.data, i - 1), 1), TRUE)
    THEN Put(c, field,
             [i \in 1..NSlots |->
                 CHOOSE s \in DOMAIN value :
                    value[s] = ReadInt(Take(Drop(c.data, i - 1), 1), TRUE)],
             NSlots)
    ELSE [c EXCEPT !.err = TRUE]

ReadEnum(c, field, value) ==
    IF c.err THEN c
    ELSE IF \E s \in DOMAIN value : value[s] = ReadInt(Take(c.data, 1), TRUE)
    THEN Put(c, field, CHOOSE s \in DOMAIN value : value[s] = ReadInt(Take(c.data, 1), TRUE), 1)
    ELSE [c EXCEPT !.err = TRUE]

ReadInts(c, field, count) ==
    Put(c, field,
        [k \in 1..count |-> ReadInt(Take(Drop(c.data, 4 * (k - 1)), 4), TRUE)],
        4 * count)

\* one i32 for each status that has a user
ReadSlotIds(c) ==
    IF c.err THEN c
    ELSE ReadInts(c, "slot_ids",
                  Cardinality({i \in 1..NSlots : c.v.slot_statuses[i] \in HAS_USER}))

ReadSlotMods(c) ==
    IF c.err THEN c
    ELSE IF c.v.freemod THEN ReadInts(c, "slot_mods", NSlots)
    ELSE Put(c, "slot_mods", <<>>, 0)

ReadHead(c) ==
    ReadString(ReadSigned(ReadString(ReadString(ReadString(
        ReadSigned(ReadSigned(ReadBool(ReadSigned(c, "id", 2), "in_progress"),
                              "powerplay", 1),
                   "mods", 4),
        "name"), "password"), "map_name"), "map_id", 4), "map_md5")

ReadSlots(c) ==
    ReadSlotIds(ReadEnums(ReadEnums(c, "slot_statuses", [s \in SlotStatuses |-> StatusValue(s)]),
                          "slot_teams", [t \in MatchTeams |-> TeamValue(t)]))

ReadSettings(c) ==
    IF c.err THEN c
    ELSE ReadBool(ReadEnum(ReadEnum(ReadSigned(ReadSigned(c, "host_id", 4), "mode", 1),
                                    "win_condition", [w \in MatchWinConditions |-> WinConditionValue(w)]),
                           "team_type", [t \in MatchTeamTypes |-> TeamTypeValue(t)]),
                  "freemod")

ReadSeed(c) == IF c.err THEN c ELSE ReadSigned(c, "seed", 4)

\* OsuMatch.read(packet)
OsuMatchRead(data) == ReadSeed(ReadSlotMods(ReadSettings(ReadSlots(ReadHead(Cursor(data))))))

(***************************************************************************)
(* SpecCodec: one stored match is written as a packet body and the body is *)
(* read back and written again.                                            *)
(***************************************************************************)
MaxSeats == 3       \* the slots of a match that the inputs vary

\* what a slot can hold: nothing, a lock, a player waiting, a player playing
SeatChoices(i) ==
    {Slot,
     [Slot EXCEPT !.status = "LOCKED"],
     [Slot EXCEPT !.session_id = i + 1, !.status = "NOT_READY"],
     [Slot EXCEPT !.session_id = i + 1, !.status = "PLAYING", !.team = "RED",
                  !.mods = 64]}

Seatings == {f \in [0..(MaxSeats - 1) -> UNION {SeatChoices(i) : i \in 0..(MaxSeats - 1)}] :
                \A i \in DOMAIN f : f[i] \in SeatChoices(i)}

CodecMatches ==
    {[Match(1, MatchNameM, 1, password)
         EXCEPT !.slots = [i \in DOMAIN @ |-> IF i < MaxSeats THEN seats[i] ELSE @[i]],
                !.freemod = freemod] :
       seats \in Seatings, password \in {"", "pw"}, freemod \in BOOLEAN}

InitCodec ==
    \E match \in CodecMatches :
       InitPlayAt([PlayRedis EXCEPT !.matches = HSet(@, match.id, match),
                                    !.mname = HSet(@, make_safe_name(match.name), match)],
                  PlayAccounts)

\* write_match(match).serialise() as update_match, match_start and new_match
\* call it
codec_serialise(match_id) ==
    /\ resp = None
    /\ match_id \in DOMAIN redis.matches
    /\ resp' = [kind |-> "codec", match |-> redis.matches[match_id],
                out |-> OsuMatchSerialise(write_match(redis.matches[match_id]), TRUE)]
    /\ UNCHANGED <<redis, locks, accounts, tasks, clock, uuid, hist>>

\* OsuMatch.read(packet).serialise()
codec_read ==
    /\ resp # None
    /\ resp.kind = "codec"
    /\ ~resp.out.err
    /\ \E c \in {OsuMatchRead(resp.out.bytes)} :
          resp' = [kind |-> "reread", match |-> resp.match, sent |-> resp.out.bytes,
                   left |-> c.data,
                   out |-> IF c.err THEN [err |-> TRUE, bytes |-> <<>>]
                           ELSE OsuMatchSerialise(c.v, TRUE)]
    /\ UNCHANGED <<redis, locks, accounts, tasks, clock, uuid, hist>>

NextCodec ==
    \/ \E match_id \in MatchIds : codec_serialise(match_id)
    \/ codec_read

SpecCodec == InitCodec /\ [][NextCodec]_vars

(***************************************************************************)
(* A match in hand.  The server is looked at after match 1 was created by  *)
(* Al, Al moved to the last slot (CHANGE_SLOT -1) and Cy joined: Al, the   *)
(* host, sits in slot 15 and Cy in slot 0, both NOT_READY.  Every request  *)
(* comes from one of the two.                                              *)
(***************************************************************************)
MaxProgressOps == 3     \* requests in one behaviour

InitProgress ==
    \E x1 \in {PlayEntry(PlaySeeded.r, PlaySeeded.a, 1)} :
    \E moved \in {PlayClose(change_match_slot(x1, 0 - 1), TRUE)} :
    \E x2 \in {PlayEntry(moved.r, moved.a, 3)} :
    \E seated \in {PlayClose(join_match(x2, 1, "pw", 1), TRUE)} :
       InitPlayAt(seated.r, seated.a)

ProgressTokens == {1, 3}

CanProgress(token) ==
    /\ Len(hist.log) < MaxProgressOps
    /\ token \in DOMAIN redis.stok

\* the match of a CHANGE_SETTINGS packet
SettingsPacket ==
    [freemod |-> TRUE, map_id |-> 7, map_md5 |-> "md5", map_name |-> "map", mode |-> 0,
     team_type |-> "TEAM_VS", win_condition |-> "ACCURACY", name |-> MatchNameM]

prog_start_match(token) ==
    /\ CanProgress(token)
    /\ \E x0 \in {PlayEntry(redis, accounts, token)} :
       \E x \in {PlayClose(PlayGate(x0, FALSE, start_match(x0)), TRUE)} :
          PlayDone(x0, x, Op("start_match", x0.s.id, 0))

prog_match_complete(token) ==
    /\ CanProgress(token)
    /\ \E x0 \in {PlayEntry(redis, accounts, token)} :
       \E x \in {PlayClose(PlayGate(x0, FALSE, match_complete(x0)), TRUE)} :
          PlayDone(x0, x, Op("match_complete", x0.s.id, 0))

prog_player_failed(token) ==
    /\ CanProgress(token)
    /\ \E x0 \in {PlayEntry(redis, accounts, token)} :
       \E x \in {PlayClose(PlayGate(x0, FALSE, player_failed(x0)), TRUE)} :
          PlayDone(x0, x, Op("player_failed", x0.s.id, 0))

prog_missing_beatmap(token) ==
    /\ CanProgress(token)
    /\ \E x0 \in {PlayEntry(redis, accounts, token)} :
       \E x \in {PlayClose(PlayGate(x0, FALSE, missing_beatmap(x0)), TRUE)} :
          PlayDone(x0, x, Op("missing_beatmap", x0.s.id, 0))

prog_leave_match(token) ==
    /\ CanProgress(token)
    /\ \E x0 \in {PlayEntry(redis, accounts, token)} :
       \E x \in {PlayClose(PlayGate(x0, FALSE, leave_match(x0)), TRUE)} :
          PlayDone(x0, x, Op("leave_match", x0.s.id, 0))

prog_lock_slot(token, slot_id) ==
    /\ CanProgress(token)
    /\ \E x0 \in {PlayEntry(redis, accounts, token)} :
       \E x \in {PlayClose(PlayGate(x0, FALSE, lock_slot(x0, slot_id)), TRUE)} :
          PlayDone(x0, x, Op("lock_slot", x0.s.id, slot_id))

prog_change_match_settings(token) ==
    /\ CanProgress(token)
    /\ \E x0 \in {PlayEntry(redis, accounts, token)} :
       \E x \in {PlayClose(PlayGate(x0, FALSE, change_match_settings(x0, SettingsPacket)),
                           TRUE)} :
          PlayDone(x0, x, Op("change_match_settings", x0.s.id, 0))

prog_transfer_host(token, slot_id) ==
    /\ CanProgress(token)
    /\ \E x0 \in {PlayEntry(redis, accounts, token)} :
       \E x \in {PlayClose(PlayGate(x0, FALSE, transfer_host(x0, slot_id)), TRUE)} :
          PlayDone(x0, x, Op("transfer_host", x0.s.id, slot_id))

prog_change_password(token) ==
    /\ CanProgress(token)
    /\ \E x0 \in {PlayEntry(redis, accounts, token)} :
       \E x \in {PlayClose(PlayGate(x0, FALSE, change_password(x0, "no")), TRUE)} :
          PlayDone(x0, x, Op("change_password", x0.s.id, 0))

prog_change_match_slot(token, slot_id) ==
    /\ CanProgress(token)
    /\ \E x0 \in {PlayEntry(redis, accounts, token)} :
       \E x \in {PlayClose(PlayGate(x0, FALSE, change_match_slot(x0, slot_id)), TRUE)} :
          PlayDone(x0, x, Op("change_match_slot", x0.s.id, slot_id))

\* slot ids of CHANGE_SLOT: one of 0..15 and one below 0
ProgressSlotIds == {1, 0 - 2}

NextProgress ==
    \/ \E token \in ProgressTokens : prog_start_match(token)
    \/ \E token \in ProgressTokens : prog_match_complete(token)
    \/ \E token \in ProgressTokens : prog_player_failed(token)
    \/ \E token \in ProgressTokens : prog_missing_beatmap(token)
    \/ \E token \in ProgressTokens : prog_leave_match(token)
    \/ \E token \in ProgressTokens : prog_lock_slot(token, DiId)
    \/ \E token \in ProgressTokens : prog_change_match_settings(token)
    \/ \E token \in ProgressTokens : prog_transfer_host(token, 0 - 16)
    \/ \E token \in ProgressTokens : prog_change_password(token)
    \/ \E token \in ProgressTokens, slot_id \in ProgressSlotIds :
          prog_change_match_slot(token, slot_id)

SpecProgress == InitProgress /\ [][NextProgress]_vars

(***************************************************************************)
(* api.packets.public_message and usecases.channels.send_message           *)
(***************************************************************************)
IGNORED_CHANNELS ==
    {<<"#", "h", "i", "g", "h", "l", "i", "g", "h", "t">>,
     <<"#", "u", "s", "e", "r", "l", "o", "g">>}

\* send_message_selective: the name the clients know the channel by
WireChannelName(name) ==
    IF StartsWith(name, PrefixMulti) THEN WireMultiplayer
    ELSE IF StartsWith(name, PrefixSpec) THEN WireSpectator
    ELSE name

\* usecases.channels.send_message(channel, content, sender): everybody but
\* the sender
\* send_message with to_self
ChannelsSendMessageToSelf(x, channel, message_content) ==
    [x EXCEPT !.r = EnqueueAll(x.r, channel.members,
                               <<send_message(x.s.id, message_content,
                                              WireChannelName(channel.name))>>)]

ChannelsSendMessage(x, channel, message_content) ==
    [x EXCEPT !.r = EnqueueAll(x.r, RemoveFirst(channel.members, x.s.id),
                               <<send_message(x.s.id, message_content,
                                              WireChannelName(channel.name))>>)]

\* public_message, lines 260-280
PublicMessageTo(x, channel, msg) ==
    IF channel = None THEN x
    ELSE IF ~InSeq(x.s.id, channel.members) THEN x
    ELSE IF ~channel.public_write /\ ~HasPriv(x.s.privileges, "ADMIN_MANAGE_USERS") THEN x
    ELSE ChannelsSendMessage(x, channel, msg)

public_message(x, message, now) ==
    IF Silenced(x.s, now) THEN x
    ELSE IF Strip(message.content) = "" THEN x
    ELSE IF message.recipient_username \in IGNORED_CHANNELS THEN x
    ELSE PublicMessageTo(
            x,
            IF message.recipient_username = WireSpectator
            THEN ChannelsFetchByName(x.r, SpecChannelName(x.s.spectating))
            ELSE ChannelsFetchByName(x.r, message.recipient_username),
            Strip(message.content))

(***************************************************************************)
(* Silence.  Al's account carries a silence_end; Al and Cy logged in at    *)
(* time 0, both are in #osu, and Cy hosts match 1.  The server is looked   *)
(* at at a later time, at which every request of the behaviour arrives.    *)
(***************************************************************************)
MaxSilenceOps == 2     \* requests in one behaviour

SilenceEnds == {0, 1, 3, 5}
SilenceTimes == {1, 2}

SilenceAccounts(until) == [PlayAccounts EXCEPT ![1].silence_end = until]

InitSilence ==
    \E until \in SilenceEnds, now \in SilenceTimes :
    \E al \in {LoginAll(PlayRedis, SilenceAccounts(until),
                        LoginInput(NameAl, "good", TRUE, SomeAdapters, FALSE), 0, 1)} :
    \E cy \in {LoginAll(al.r, al.a, LoginInput(NameCy, "good", TRUE, SomeAdapters, FALSE), 0, 3)} :
    \E x3 \in {PlayEntry(cy.r, cy.a, 3)} :
    \E hosted \in {PlayClose(CreateMatchJoin(x3, Match(1, MatchNameM, 3, "pw")), TRUE)} :
       /\ redis = hosted.r
       /\ accounts = hosted.a
       /\ locks = {}
       /\ tasks = [t \in Tasks |-> Idle]
       /\ clock = now
       /\ uuid = 4
       /\ resp = None
       /\ hist = [log |-> <<>>]

SilenceTokens == {1, 3}

CanSilence(token) ==
    /\ Len(hist.log) < MaxSilenceOps
    /\ token \in DOMAIN redis.stok

sil_public_message(token) ==
    /\ CanSilence(token)
    /\ \E x0 \in {PlayEntry(redis, accounts, token)} :
       \E x \in {PlayClose(
                    PlayGate(x0, FALSE,
                             public_message(x0, [content |-> "hi",
                                                 recipient_username |-> ChanOsu], clock)),
                    TRUE)} :
          PlayDone(x0, x, Op("public_message", x0.s.id, 0))

sil_send_private_message(token, to) ==
    /\ CanSilence(token)
    /\ \E x0 \in {PlayEntry(redis, accounts, token)} :
       \E x \in {PlayClose(
                    PlayGate(x0, FALSE,
                             send_private_message(
                                 x0, [content |-> "hi",
                                      recipient_username |-> PlayAccounts[to].name],
                                 clock)),
                    TRUE)} :
          PlayDone(x0, x, Op("send_private_message", x0.s.id, to))

sil_create_match(token) ==
    /\ CanSilence(token)
    /\ \E x0 \in {PlayEntry(redis, accounts, token)} :
       \E x \in {PlayClose(
                    PlayGate(x0, FALSE,
                             create_match(x0, [name |-> MatchNameN, password |-> "pw"], clock)),
                    TRUE)} :
          PlayDone(x0, x, Op("create_match", x0.s.id, 0))

sil_join_match(token) ==
    /\ CanSilence(token)
    /\ \E x0 \in {PlayEntry(redis, accounts, token)} :
       \E x \in {PlayClose(PlayGate(x0, FALSE, join_match(x0, 1, "pw", clock)), TRUE)} :
          PlayDone(x0, x, Op("join_match", x0.s.id, 1))

NextSilence ==
    \/ \E token \in SilenceTokens : sil_public_message(token)
    \/ \E token \in SilenceTokens, to \in SilenceTokens : sil_send_private_message(token, to)
    \/ \E token \in SilenceTokens : sil_create_match(token)
    \/ \E token \in SilenceTokens : sil_join_match(token)

SpecSilence == InitSilence /\ [][NextSilence]_vars

(***************************************************************************)
(* Channels.  The four sessions are logged in and in #osu; they join the   *)
(* lobby, leave it, ask for #osu, #lobby and the staff channel, and log    *)
(* out.  A JOIN_CHANNEL request keeps what usecases.sessions.join_channel  *)
(* returned and the store as it left it, before the closing session write. *)
(***************************************************************************)
MaxChannelOps == 3     \* requests in one behaviour

ChannelNames == {ChanOsu, ChanLobby, ChanStaff}

InitChannel == InitPlayAt(PlayLoginDi.r, PlayLoginDi.a)

CanChannel(token) ==
    /\ Len(hist.log) < MaxChannelOps
    /\ token \in DOMAIN redis.stok

\* the call of usecases.sessions.join_channel inside api.packets.join_channel
JoinChannelCall(x, channel_name) ==
    IF ChannelsFetchByName(x.r, channel_name) = None
    THEN [x |-> x, ret |-> FALSE, channel |-> None]
    ELSE JoinChannel(x, ChannelsFetchByName(x.r, channel_name))

chan_join_channel(token, channel_name) ==
    /\ CanChannel(token)
    /\ \E x0 \in {PlayEntry(redis, accounts, token)} :
       \E y \in {JoinChannelCall(x0, channel_name)} :
       \E x \in {PlayClose(PlayGate(x0, FALSE, join_channel(x0, channel_name)), TRUE)} :
          /\ redis' = x.r
          /\ accounts' = x.a
          /\ resp' = [kind |-> "join", op |-> Op("join_channel", x0.s.id, channel_name),
                      err |-> x.err, session |-> x0.s, left |-> x.s, before |-> x0.r,
                      channel |-> ChannelsFetchByName(x0.r, channel_name),
                      ret |-> y.ret, mid |-> y.x]
          /\ hist' = [hist EXCEPT !.log =
                         Append(@, [name |-> "join_channel", by |-> x0.s.id,
                                    arg |-> channel_name,
                                    was |-> x0.s.match, now |-> x.s.match, err |-> x.err])]
          /\ UNCHANGED <<locks, tasks, clock, uuid>>

chan_join_lobby(token) ==
    /\ CanChannel(token)
    /\ \E x0 \in {PlayEntry(redis, accounts, token)} :
       \E x \in {PlayClose(PlayGate(x0, FALSE, join_lobby(x0)), TRUE)} :
          PlayDone(x0, x, Op("join_lobby", x0.s.id, 0))

chan_leave_lobby(token) ==
    /\ CanChannel(token)
    /\ \E x0 \in {PlayEntry(redis, accounts, token)} :
       \E x \in {PlayClose(PlayGate(x0, FALSE, leave_lobby(x0)), TRUE)} :
          PlayDone(x0, x, Op("leave_lobby", x0.s.id, 0))

chan_user_logout(token) ==
    /\ CanChannel(token)
    /\ \E x0 \in {PlayEntry(redis, accounts, token)} :
       \E x \in {PlayClose(PlayGate(x0, TRUE, user_logout(x0, <<>>, clock)), FALSE)} :
          PlayDone(x0, x, Op("user_logout", x0.s.id, 0))

NextChannel ==
    \/ \E token \in PublicTokens, channel_name \in ChannelNames :
          chan_join_channel(token, channel_name)
    \/ \E token \in PublicTokens : chan_join_lobby(token)
    \/ \E token \in PublicTokens : chan_leave_lobby(token)
    \/ \E token \in PublicTokens : chan_user_logout(token)

SpecChannel == InitChannel /\ [][NextChannel]_vars

(***************************************************************************)
(* Public messages.  #osu is seeded either open to every writer or closed  *)
(* to all but admins; Al, B o (restricted) and Cy (admin) logged in at     *)
(* time 0.  Requests arrive at time 1.                                     *)
(***************************************************************************)
MaxMessageOps == 2     \* requests in one behaviour

MessageRecipients == {ChanOsu, ChanStaff, WireMultiplayer}
MessageContents == {"hi", " "}
MessageTokens == 1..3

InitMessage ==
    \E public_write \in BOOLEAN :
    \E r0 \in {[PlayRedis EXCEPT !.channels[ChanOsu].public_write = public_write]} :
    \E al \in {LoginAll(r0, PlayAccounts, LoginInput(NameAl, "good", TRUE, SomeAdapters, FALSE), 0, 1)} :
    \E bo \in {LoginAll(al.r, al.a, LoginInput(NameBo, "good", TRUE, SomeAdapters, FALSE), 0, 2)} :
    \E cy \in {LoginAll(bo.r, bo.a, LoginInput(NameCy, "good", TRUE, SomeAdapters, FALSE), 0, 3)} :
       InitPlayAt(cy.r, cy.a)

CanMessage(token) ==
    /\ Len(hist.log) < MaxMessageOps
    /\ token \in DOMAIN redis.stok

msg_public_message(token, recipient, content) ==
    /\ CanMessage(token)
    /\ \E x0 \in {PlayEntry(redis, accounts, token)} :
       \E x \in {PlayClose(
                    PlayGate(x0, FALSE,
                             public_message(x0, [content |-> content,
                                                 recipient_username |-> recipient], clock)),
                    TRUE)} :
          PlayDone(x0, x, Op("public_message", x0.s.id, <<recipient, content>>))

msg_user_logout(token) ==
    /\ CanMessage(token)
    /\ \E x0 \in {PlayEntry(redis, accounts, token)} :
       \E x \in {PlayClose(PlayGate(x0, TRUE, user_logout(x0, <<>>, clock)), FALSE)} :
          PlayDone(x0, x, Op("user_logout", x0.s.id, <<>>))

NextMessage ==
    \/ \E token \in MessageTokens, recipient \in MessageRecipients, content \in MessageContents :
          msg_public_message(token, recipient, content)
    \/ \E token \in MessageTokens : msg_user_logout(token)

SpecMessage == InitMessage /\ [][NextMessage]_vars

\* C11: a login whose client build is dated more than 90 days before today is
\* answered VERSION_UPDATE_FORCED then USER_ID(-2) and creates no session; a
\* build dated within 90 days goes on to the later checks of the handshake.
C11_OldVersionForced ==
    (LoginAnswered /\ ~resp.err /\ resp.version.matched) =>
       IF resp.version.date < Today - DELTA_90_DAYS
       THEN /\ resp.body = <<version_update_forced, user_id(0 - 2)>>
            /\ ~resp.created
       ELSE resp.body # <<version_update_forced, user_id(0 - 2)>>

\* the last request was a LOGOUT that usecases.sessions.logout ran to its end
LoggedOut ==
    /\ resp # None /\ resp.kind = "play"
    /\ resp.op.name = "user_logout"
    /\ ~resp.err
    /\ clock - resp.session.login_time >= 1

\* C12: after logout(session) the session's id is in the persisted members of
\* none of the channels it had joined, however many they were, and a channel
\* it left empty is gone from the store.
C12_LogoutLeavesChannels ==
    LoggedOut =>
       \A i \in 1..Len(resp.session.channels) :
          LET channel == ChannelsFetchByName(redis, resp.session.channels[i])
          IN channel # None =>
                /\ ~InSeq(resp.session.id, channel.members)
                /\ channel.members # <<>>

\* C13: after logout(session) the session is in none of the id, safe-name and
\* token indices and not in the session list, its own queue is empty, and if
\* it was public every session still logged in has USER_LOGOUT(session.id) in
\* its queue, put there by this request.
C13_LogoutClearsSession ==
    LoggedOut =>
       LET session == resp.session
           packet == logout_packet(session.id)
       IN /\ session.id \notin DOMAIN redis.sid
          /\ make_safe_name(session.name) \notin DOMAIN redis.sname
          /\ session.token \notin DOMAIN redis.stok
          /\ ~InSeq(session.id, redis.slist)
          /\ redis.queues[session.id] = <<>>
          /\ HasPriv(session.privileges, "USER_PUBLIC") =>
                \A id \in DOMAIN redis.sid :
                   /\ InSeq(packet, redis.queues[id])
                   /\ ~InSeq(packet, resp.before.queues[id])

C13_Witness ==
    /\ LoggedOut
    /\ HasPriv(resp.session.privileges, "USER_PUBLIC")
    /\ resp.before.queues[resp.session.id] # <<>>
    /\ Cardinality(DOMAIN redis.sid) = 3
    /\ Truthy(resp.session.spectating)

\* the last request was a LOGOUT sent less than a second after the login
EarlyLogout ==
    /\ resp # None /\ resp.kind = "play"
    /\ resp.op.name = "user_logout"
    /\ clock - resp.session.login_time < 1

\* C14: a LOGOUT handled less than one second after login_time changes
\* nothing: the indices, the session list, the channels and their members,
\* the spectator links and every queue are as they were before the request.
C14_EarlyLogoutIgnored ==
    EarlyLogout =>
       /\ ~resp.err
       /\ redis = resp.before
       /\ resp.left = resp.session
       /\ resp.session.id \in DOMAIN redis.sid
       /\ InSeq(resp.session.id, redis.slist)
       /\ \A id \in DOMAIN redis.queues :
             ~InSeq(logout_packet(resp.session.id), redis.queues[id])

C14_Witness ==
    /\ EarlyLogout
    /\ Truthy(resp.session.spectating)
    /\ Len(resp.session.channels) = 2
    /\ redis.queues[resp.session.id] # <<>>

\* the last request was a private message to a session that takes messages
\* from friends only, sent by somebody who is not among its friends
BlockedMessage ==
    /\ resp # None /\ resp.kind = "play"
    /\ resp.op.name = "send_private_message"
    /\ resp.op.by # resp.op.arg
    /\ resp.op.arg \in DOMAIN resp.before.sid
    /\ resp.before.sid[resp.op.arg].friend_only_dms
    /\ ~InSeq(resp.op.by, accounts[resp.op.arg].friends)

\* what the request added to a queue (queues only grow within one request
\* that is not the owner's logout)
Added(id) == SubSeq(redis.queues[id], Len(resp.before.queues[id]) + 1, Len(redis.queues[id]))

\* C15: a private message to a recipient with friend_only_dms set, from a
\* sender who is not in the recipient's friends, puts USER_DM_BLOCKED(recipient)
\* on the sender's queue and no message on the recipient's queue.
C15_BlockedMessageNotDelivered ==
    BlockedMessage =>
       /\ InSeq(private_message_blocked(accounts[resp.op.arg].name), Added(resp.op.by))
       /\ \A i \in 1..Len(Added(resp.op.arg)) :
             Added(resp.op.arg)[i][1] # "CHO_SEND_MESSAGE"

Count(queue, packet) == Cardinality({i \in 1..Len(queue) : queue[i] = packet})

\* three requests since the four logins: two sessions started spectating one
\* host, each in a request of its own, and the host then sent one
\* SPECTATE_FRAMES packet
TwoSpectatorsThenFrames ==
    /\ Len(hist.log) = 3
    /\ hist.log[1].name = "start_spectating"
    /\ hist.log[2].name = "start_spectating"
    /\ hist.log[3].name = "spectate_frames"
    /\ hist.log[1].arg = hist.log[3].by
    /\ hist.log[2].arg = hist.log[3].by
    /\ hist.log[1].by # hist.log[2].by
    /\ hist.log[1].by # hist.log[3].by
    /\ hist.log[2].by # hist.log[3].by

\* C16: after A and C have each started spectating host B, in either order,
\* one SPECTATE_FRAMES packet with payload F sent by B adds exactly one
\* SPECTATE_FRAMES(F) to A's queue, exactly one to C's queue, and none to
\* the queue of a session that is not spectating B.
C16_FramesReachEachSpectatorOnce ==
    TwoSpectatorsThenFrames =>
       /\ ~resp.err
       /\ \A id \in DOMAIN redis.queues :
             Count(Added(id), spectate_frames(FrameBundle))
                = IF id \in {hist.log[1].by, hist.log[2].by} THEN 1 ELSE 0

C16_Witness ==
    /\ TwoSpectatorsThenFrames
    /\ hist.log[1].by = DiId
    /\ hist.log[2].by = 1
    /\ hist.log[3].by = 3
    /\ Count(redis.queues[1], spectate_frames(FrameBundle)) = 1

\* the last request was a CREATE_MATCH by a session that was in no match
CreateRequested ==
    /\ hist.log # <<>>
    /\ hist.log[Len(hist.log)].name = "create_match"
    /\ hist.log[Len(hist.log)].was = NoneInt

\* three requests: CREATE_MATCH by A, JOIN_MATCH of that match by B with the
\* right password, PART_MATCH by A; neither was in a match before
CreateJoinPart ==
    /\ Len(hist.log) = 3
    /\ hist.log[1].name = "create_match" /\ hist.log[1].was = NoneInt
    /\ hist.log[2].name = "join_match" /\ hist.log[2].was = NoneInt
    /\ hist.log[3].name = "leave_match"
    /\ hist.log[2].by # hist.log[1].by
    /\ hist.log[3].by = hist.log[1].by
    /\ hist.log[2].arg = hist.log[1].now

\* the last request was a PART_MATCH by the only session seated in its match
LastPlayerParted ==
    /\ hist.log # <<>>
    /\ resp.op.name = "leave_match"
    /\ Truthy(resp.session.match)
    /\ resp.session.match \in DOMAIN resp.before.matches
    /\ \A i \in 0..(NSlots - 1) :
          resp.before.matches[resp.session.match].slots[i].session_id
             \in {NoneInt, resp.session.id}
    /\ \E i \in 0..(NSlots - 1) :
          resp.before.matches[resp.session.match].slots[i].session_id = resp.session.id

\* C17: CREATE_MATCH by A makes a match hosted by A; after JOIN_MATCH by B
\* with the right password and PART_MATCH by A the match's host_id is B and
\* B's queue holds MATCH_TRANSFER_HOST; when the last player then parts, the
\* match is deleted from the store and every #lobby member's queue receives
\* DISPOSE_MATCH(id).
C17_HostTransferThenDispose ==
    /\ CreateRequested =>
          /\ ~resp.err
          /\ resp.left.match \in DOMAIN redis.matches
          /\ redis.matches[resp.left.match].host_id = resp.session.id
    /\ CreateJoinPart =>
          /\ ~resp.err
          /\ hist.log[2].arg \in DOMAIN redis.matches
          /\ redis.matches[hist.log[2].arg].host_id = hist.log[2].by
          /\ InSeq(match_transfer_host, Added(hist.log[2].by))
    /\ LastPlayerParted =>
          /\ ~resp.err
          /\ resp.session.match \notin DOMAIN redis.matches
          /\ ChanLobby \in DOMAIN resp.before.channels =>
                \A i \in 1..Len(resp.before.channels[ChanLobby].members) :
                   InSeq(dispose_match(resp.session.match),
                         Added(resp.before.channels[ChanLobby].members[i]))

\* C18: every persisted match has exactly 16 slots, no session id is in more
\* than one slot, a slot whose status is in HAS_USER has a session id, and a
\* slot whose status is OPEN or LOCKED has none.
C18_SlotsWellFormed ==
    \A id \in DOMAIN redis.matches :
       LET slots == redis.matches[id].slots
       IN /\ DOMAIN slots = 0..15
          /\ \A i, j \in DOMAIN slots :
                (i # j /\ slots[i].session_id = slots[j].session_id)
                   => slots[i].session_id = NoneInt
          /\ \A i \in DOMAIN slots :
                /\ slots[i].status \in HAS_USER => slots[i].session_id # NoneInt
                /\ slots[i].status \in {"OPEN", "LOCKED"} => slots[i].session_id = NoneInt

\* C19: a temp channel (#spec_<id>, #multi_<id>) is in the store exactly when
\* it has members: no stored temp channel has an empty member list.
C19_TempChannelIffMembers ==
    \A name \in DOMAIN redis.channels :
       redis.channels[name].temp => redis.channels[name].members # <<>>

\* the session ids of the slots whose status is in HAS_USER, in slot order
OccupantIds(match) ==
    SelectSeq([i \in 1..NSlots |->
                  IF match.slots[i - 1].status \in HAS_USER
                  THEN match.slots[i - 1].session_id ELSE NoneInt],
              LAMBDA id : id # NoneInt)

\* C20: the bytes of a match list, for each slot whose status is in HAS_USER
\* and in slot order, that slot's own session id, wherever the occupied slots
\* are; OsuMatch.read of the bytes followed by serialise gives the same bytes.
C20_MatchEncoding ==
    /\ (resp # None /\ resp.kind = "codec") =>
          /\ ~resp.out.err
          /\ OsuMatchRead(resp.out.bytes).v.slot_ids = OccupantIds(resp.match)
    /\ (resp # None /\ resp.kind = "reread") =>
          /\ ~resp.out.err
          /\ resp.out.bytes = resp.sent

\* repositories.sessions.update ends by sending the session's presence to every
\* logged-in session: the writes of session `id` between two stores are the
\* presence packets that the queue of a bystander gained
SessionWrites(before, after, id, watcher) ==
    Count(SubSeq(after.queues[watcher], Len(before.queues[watcher]) + 1,
                 Len(after.queues[watcher])),
          Pkt("CHO_USER_PRESENCE", id))

OtherThanLogout ==
    \E i \in 1..Len(resp.invoked) : resp.invoked[i].packet_id # OSU_LOGOUT

\* C21: in a batch where at least one handler other than LOGOUT was dispatched
\* the session is written to the store exactly once, after the last handler;
\* no handler writes it during the loop.
C21_SessionWrittenOnce ==
    (BatchDone /\ OtherThanLogout) =>
       /\ SessionWrites(resp.before, resp.loop_end, resp.session.id, 3 - resp.session.id) = 0
       /\ SessionWrites(resp.loop_end, redis, resp.session.id, 3 - resp.session.id) = 1

\* the last request was a JOIN_MATCH of a stored match by a session that was in
\* no match, is not its host and is not one of its tourney clients
JoinRequested ==
    /\ hist.log # <<>>
    /\ resp.op.name \in {"join_match", "join_match_wrong"}
    /\ resp.session.match = NoneInt
    /\ resp.op.arg \in DOMAIN resp.before.matches
    /\ resp.session.id # resp.before.matches[resp.op.arg].host_id
    /\ ~InSeq(resp.session.id, resp.before.matches[resp.op.arg].tourney_clients)

\* the password of the request is the match's and a slot is OPEN
JoinAdmitted ==
    /\ JoinRequested
    /\ resp.op.name = "join_match"
    /\ get_next_free_slot_idx(resp.before.matches[resp.op.arg]) # NoneInt

JoinRefused ==
    /\ JoinRequested
    /\ \/ resp.op.name = "join_match_wrong"
       \/ get_next_free_slot_idx(resp.before.matches[resp.op.arg]) = NoneInt

\* C22: a join by a session that is not the host takes the lowest-index OPEN
\* slot and leaves every other slot as it was; a join refused for a wrong
\* password or for want of an OPEN slot enqueues MATCH_JOIN_FAIL and changes
\* no match, channel or session.
C22_JoinTakesFirstOpenSlot ==
    /\ JoinAdmitted =>
          /\ resp.op.arg \in DOMAIN redis.matches
          /\ \A i \in 0..(NSlots - 1) :
                IF i = get_next_free_slot_idx(resp.before.matches[resp.op.arg])
                THEN redis.matches[resp.op.arg].slots[i].session_id = resp.session.id
                ELSE redis.matches[resp.op.arg].slots[i]
                        = resp.before.matches[resp.op.arg].slots[i]
    /\ JoinRefused =>
          /\ InSeq(match_join_fail, Added(resp.session.id))
          /\ redis.matches = resp.before.matches
          /\ redis.channels = resp.before.channels
          /\ redis.sid = resp.before.sid

\* the slots of stored match m that carry the session id
SlotsOf(m, id) ==
    IF m \in DOMAIN redis.matches
    THEN {i \in 0..(NSlots - 1) : redis.matches[m].slots[i].session_id = id}
    ELSE {}

\* C23: after requests that all completed without an exception, a stored
\* session has match == m exactly when one slot of stored match m has its
\* session id: no session points to a match where it has no slot, and no slot
\* points to a session that is elsewhere.
C23_SessionMatchLink ==
    (\A k \in 1..Len(hist.log) : ~hist.log[k].err) =>
    \A id \in DOMAIN redis.sid :
       /\ Truthy(redis.sid[id].match) => Cardinality(SlotsOf(redis.sid[id].match, id)) = 1
       /\ \A m \in DOMAIN redis.matches :
             SlotsOf(m, id) # {} => redis.sid[id].match = m

\* C24: in every stored match with an occupied slot, host_id is the
\* session_id of an occupied slot, after requests that all completed
\* (join, leave, change slot, lock, transfer host).
OccupiedSlots(m) ==
    {i \in DOMAIN redis.matches[m].slots : redis.matches[m].slots[i].status \in HAS_USER}

C24_HostInOccupiedSlot ==
    (\A k \in 1..Len(hist.log) : ~hist.log[k].err) =>
    \A m \in DOMAIN redis.matches :
       OccupiedSlots(m) # {} =>
          \E i \in OccupiedSlots(m) :
             redis.matches[m].slots[i].session_id = redis.matches[m].host_id

\* C25: in every stored match in_progress is true exactly when some slot is
\* PLAYING, after requests that all completed and are MATCH_START,
\* MATCH_COMPLETE, MATCH_FAILED or PART_MATCH, with MATCH_NO_BEATMAP sent
\* only before the first start.
StartedBefore(k) == \E j \in 1..(k - 1) : hist.log[j].name = "start_match"

ProgressRequest(k) ==
    /\ ~hist.log[k].err
    /\ \/ hist.log[k].name \in {"start_match", "match_complete", "player_failed", "leave_match"}
       \/ hist.log[k].name = "missing_beatmap" /\ ~StartedBefore(k)

C25_InProgressIffPlaying ==
    (\A k \in 1..Len(hist.log) : ProgressRequest(k)) =>
    \A m \in DOMAIN redis.matches :
       redis.matches[m].in_progress <=>
          \E i \in DOMAIN redis.matches[m].slots : redis.matches[m].slots[i].status = "PLAYING"

\* C28: match 1 is started by its host with Al and Cy PLAYING and the two
\* send MATCH_COMPLETE, each in its own request, in either order: then both
\* queues hold MATCH_COMPLETE exactly once, the stored match is no longer in
\* progress and both slots are NOT_READY; after the first of the two
\* requests no MATCH_COMPLETE has been enqueued.
StartThenComplete(n) ==
    /\ Len(hist.log) = 1 + n
    /\ hist.log[1].name = "start_match" /\ hist.log[1].by = 1
    /\ \A k \in 2..(1 + n) : hist.log[k].name = "match_complete"
    /\ Cardinality({hist.log[k].by : k \in 2..(1 + n)}) = n
    /\ \A k \in 1..(1 + n) : ~hist.log[k].err

Completes(id) == Count(redis.queues[id], match_complete_packet)

C28_CompleteBarrier ==
    /\ StartThenComplete(1) => \A id \in {1, 3} : Completes(id) = 0
    /\ StartThenComplete(2) =>
          /\ \A id \in {1, 3} : Completes(id) = 1
          /\ ~redis.matches[1].in_progress
          /\ \A id \in {1, 3} :
                redis.matches[1].slots[get_slot_idx(redis.matches[1], id)].status = "NOT_READY"

\* C26: a completed MATCH_CHANGE_SLOT by a player seated in a stored match,
\* with slot_id in 0..15 and an OPEN target, leaves the caller's session_id,
\* status, team and mods in the target slot and the old slot OPEN with no
\* session_id; with any other slot_id or target the stored matches are as
\* before.
ChangeSlotAsked ==
    /\ resp # None /\ resp.kind = "play" /\ ~resp.err
    /\ resp.op.name = "change_match_slot"
    /\ Truthy(resp.session.match)
    /\ resp.session.match \in DOMAIN resp.before.matches
    /\ get_slot_idx(resp.before.matches[resp.session.match], resp.session.id) # NoneInt

ChangeSlotTargetOpen ==
    /\ resp.op.arg \in 0..(NSlots - 1)
    /\ resp.before.matches[resp.session.match].slots[resp.op.arg].status = "OPEN"

ChangeSlotOld == get_slot_idx(resp.before.matches[resp.session.match], resp.session.id)

C26_ChangeSlotMoves ==
    ChangeSlotAsked =>
       IF ChangeSlotTargetOpen
       THEN /\ resp.session.match \in DOMAIN redis.matches
            /\ redis.matches[resp.session.match].slots[resp.op.arg] =
                  resp.before.matches[resp.session.match].slots[ChangeSlotOld]
            /\ redis.matches[resp.session.match].slots[ChangeSlotOld].status = "OPEN"
            /\ redis.matches[resp.session.match].slots[ChangeSlotOld].session_id = NoneInt
       ELSE redis.matches = resp.before.matches

\* C27: a host-only command (MATCH_LOCK, MATCH_CHANGE_SETTINGS, MATCH_START,
\* MATCH_TRANSFER_HOST, MATCH_CHANGE_PASSWORD) sent by a player of a stored
\* match who is not its host completes, leaves the stored matches as they
\* were, and adds to every logged-in session's queue nothing but the
\* sender's USER_STATS and USER_PRESENCE of the request's closing session
\* write.
HostOnlyCommands ==
    {"lock_slot", "change_match_settings", "start_match", "transfer_host", "change_password"}

NonHostCommand ==
    /\ resp # None /\ resp.kind = "play"
    /\ resp.op.name \in HostOnlyCommands
    /\ Truthy(resp.session.match)
    /\ resp.session.match \in DOMAIN resp.before.matches
    /\ resp.before.matches[resp.session.match].host_id # resp.session.id

MatchesAsBefore ==
    /\ redis.matches = resp.before.matches
    /\ redis.mname = resp.before.mname

C27_NonHostCommandFrame ==
    NonHostCommand =>
       /\ ~resp.err
       /\ MatchesAsBefore
       /\ \A id \in DOMAIN redis.queues :
             Added(id) = IF id \in DOMAIN redis.sid
                         THEN <<user_stats(resp.left), user_presence(resp.left)>>
                         ELSE <<>>

\* C27 as stated: nothing at all is enqueued
C27_NothingEnqueued ==
    NonHostCommand => MatchesAsBefore /\ redis.queues = resp.before.queues

C27_Witness ==
    /\ NonHostCommand
    /\ resp.op.name = "change_password"
    /\ resp.session.id = 3
    /\ redis.matches[1].password = "pw"

\* C29: after requests that all completed, none of them a session asking to
\* spectate itself, a stored session with spectating == h has a logged-in host h whose stored spectators hold its
\* id exactly once, and every id in a stored spectators list is a stored
\* session spectating that host.
SpectatesStored(id, h) ==
    /\ h \in DOMAIN redis.sid
    /\ Cardinality({i \in 1..Len(redis.sid[h].spectators) : redis.sid[h].spectators[i] = id}) = 1

SpectateRequest(k) ==
    /\ ~hist.log[k].err
    /\ hist.log[k].name = "start_spectating" => hist.log[k].by # hist.log[k].arg

C29_SpectatorLink ==
    (\A k \in 1..Len(hist.log) : SpectateRequest(k)) =>
       /\ \A id \in DOMAIN redis.sid :
             Truthy(redis.sid[id].spectating) => SpectatesStored(id, redis.sid[id].spectating)
       /\ \A h \in DOMAIN redis.sid :
             \A i \in 1..Len(redis.sid[h].spectators) :
                /\ redis.sid[h].spectators[i] \in DOMAIN redis.sid
                /\ redis.sid[redis.sid[h].spectators[i]].spectating = h

\* C30: at the time of a request the sender is silenced exactly when its
\* silence_end is later than that time; a sender whose silence has not ended
\* gets no message through and neither creates nor joins a match, and one
\* whose silence has ended (or who was never silenced) gets its public or
\* private message delivered.
SilenceRequest ==
    /\ resp # None /\ resp.kind = "play"
    /\ resp.op.name \in {"public_message", "send_private_message", "create_match", "join_match"}

MessagesFrom(id, to) ==
    {i \in 1..Len(Added(to)) :
        /\ Added(to)[i][1] = "CHO_SEND_MESSAGE"
        /\ Added(to)[i][2][1] = id}

SilenceRefused ==
    /\ \A to \in DOMAIN redis.queues : MessagesFrom(resp.session.id, to) = {}
    /\ redis.matches = resp.before.matches
    /\ redis.sid[resp.session.id].match = resp.session.match

SilenceDelivered ==
    /\ resp.op.name = "public_message" =>
          \A to \in DOMAIN redis.sid \ {resp.session.id} : MessagesFrom(resp.session.id, to) # {}
    /\ resp.op.name = "send_private_message" => MessagesFrom(resp.session.id, resp.op.arg) # {}

C30_SilencedIffNotEnded ==
    SilenceRequest =>
       /\ Silenced(resp.session, clock) <=> resp.session.silence_end > clock
       /\ IF resp.session.silence_end > clock THEN SilenceRefused ELSE SilenceDelivered

\* C31: usecases.sessions.join_channel returns false and leaves the session
\* object, the channel and the whole store (sessions, channels, queues) as
\* they were when the session is already a member, when the channel is not
\* public_read and the session is no admin, or when the channel is #lobby and
\* the session is not in the lobby; otherwise it returns true, the name is in
\* the session's channels and the id in the channel's members, both stored,
\* and CHANNEL_JOIN_SUCCESS is on the session's queue.
JoinAsked == resp # None /\ resp.kind = "join" /\ resp.channel # None

JoinDenied ==
    \/ InSeq(resp.session.id, resp.channel.members)
    \/ ~resp.channel.public_read /\ ~HasPriv(resp.session.privileges, "ADMIN_MANAGE_USERS")
    \/ resp.channel.name = ChanLobby /\ ~resp.session.in_lobby

JoinQueued(id) ==
    SubSeq(resp.mid.r.queues[id], Len(resp.before.queues[id]) + 1, Len(resp.mid.r.queues[id]))

C31_JoinChannelGuards ==
    JoinAsked =>
       IF JoinDenied
       THEN /\ ~resp.ret
            /\ resp.mid.r = resp.before
            /\ resp.mid.s = resp.session
       ELSE /\ resp.ret
            /\ InSeq(resp.channel.name, resp.mid.s.channels)
            /\ InSeq(resp.channel.name, resp.mid.r.sid[resp.session.id].channels)
            /\ InSeq(resp.session.id, ChannelsFetchByName(resp.mid.r, resp.channel.name).members)
            /\ InSeq(join_channel_packet(resp.channel.name), JoinQueued(resp.session.id))

\* a session in the lobby is let into #lobby after having been refused
C31_Witness ==
    /\ JoinAsked
    /\ resp.channel.name = ChanLobby
    /\ resp.ret
    /\ InSeq(resp.session.id, redis.channels[ChanLobby].members)
    /\ \E k \in 1..Len(hist.log) :
          /\ hist.log[k].name = "join_channel" /\ hist.log[k].arg = ChanLobby
          /\ hist.log[k].by = resp.session.id
          /\ k < Len(hist.log)

\* C32: a public message is enqueued exactly once to every member of the
\* channel other than the sender, and to nobody else, when the sender may
\* send (not restricted, not silenced, a message that is not blank), is a
\* member and the channel is public_write or the sender an admin; otherwise
\* no message is enqueued.  Besides the message the queues of the logged-in
\* sessions gain the sender's USER_STATS and USER_PRESENCE of the request's
\* closing session write, and nothing else.
MessageAsked == resp # None /\ resp.kind = "play" /\ resp.op.name = "public_message"

MessageChannel == ChannelsFetchByName(resp.before, resp.op.arg[1])

MessageMaySend ==
    /\ HasPriv(resp.session.privileges, "USER_PUBLIC")
    /\ ~Silenced(resp.session, clock)
    /\ Strip(resp.op.arg[2]) # ""

MessageAllowed ==
    /\ MessageMaySend
    /\ MessageChannel # None
    /\ InSeq(resp.session.id, MessageChannel.members)
    /\ MessageChannel.public_write \/ HasPriv(resp.session.privileges, "ADMIN_MANAGE_USERS")

MessageExpected(to) ==
    IF MessageAllowed /\ to # resp.session.id /\ InSeq(to, MessageChannel.members)
    THEN <<send_message(resp.session.id, Strip(resp.op.arg[2]), MessageChannel.name)>>
    ELSE <<>>

ClosingWrite(to) ==
    IF to \in DOMAIN redis.sid
    THEN <<user_stats(resp.left), user_presence(resp.left)>> ELSE <<>>

MatchPackets == {"CHO_UPDATE_MATCH", "CHO_NEW_MATCH", "CHO_MATCH_START", "CHO_MATCH_JOIN_SUCCESS"}

\* the password field of the packet's bytes, for a match with this password
WirePassword(packet, password) ==
    SerialisePassword([password |-> Utf8(password)], packet[2][3])

MultiMember(r, match_id, id) ==
    /\ ChannelsFetchByName(r, MultiChannelName(match_id)) # None
    /\ InSeq(id, ChannelsFetchByName(r, MultiChannelName(match_id)).members)

Outsider(packet, id) ==
    /\ packet[1] \in MatchPackets
    /\ ~MultiMember(resp.before, packet[2][1], id)
    /\ ~MultiMember(redis, packet[2][1], id)

C33_PasswordHiddenFromLobby ==
    (resp # None /\ resp.kind = "play") =>
       \A id \in DOMAIN redis.queues :
          \A i \in 1..Len(Added(id)) :
             Outsider(Added(id)[i], id) =>
                WirePassword(Added(id)[i], "pw") = WirePassword(Added(id)[i], "no")

(***************************************************************************)
(* Concurrent requests.  Two requests run at once, each in its own task,   *)
(* and a task gives way at the awaits of its handler: after the session is *)
(* fetched by its token (api.bancho), after the handler's fetch from the   *)
(* match store, after the handler's writes, and after the closing session  *)
(* write of handle_packet_data.  The session a request works on is the     *)
(* copy fetched at its start.  The store is looked at without a match,     *)
(* with match 1 hosted by Al alone, and with match 1 holding Al in slot 15 *)
(* and Cy in slot 0.                                                       *)
(***************************************************************************)
MaxRaceOps == 2     \* requests in one behaviour

RaceTokens == {1, 3, 4}
RaceFetching == {"match_ready", "missing_beatmap", "create_match"}
RaceDirect == {"start_spectating", "leave_lobby"}

RaceMatchName(token) == <<"r", Digit(token)>>

RaceStores == {"empty", "hosted", "seated"}

InitRace ==
    \E store \in RaceStores :
    \E x1 \in {PlayEntry(PlaySeeded.r, PlaySeeded.a, 1)} :
    \E moved \in {PlayClose(change_match_slot(x1, 0 - 1), TRUE)} :
    \E x2 \in {PlayEntry(moved.r, moved.a, 3)} :
    \E seated \in {PlayClose(join_match(x2, 1, "pw", 1), TRUE)} :
       InitPlayAt(CASE store = "empty" -> PlayDiLobby.r
                    [] store = "hosted" -> PlaySeeded.r
                    [] OTHER -> seated.r,
                  PlayDiLobby.a)

RaceX(t) == [r |-> redis, a |-> accounts, s |-> tasks[t].s, err |-> tasks[t].err]

\* api.bancho: the session of the request's token
race_begin(t, token, kind) ==
    /\ tasks[t].pc = "idle"
    /\ Len(hist.log) + Cardinality({u \in Tasks : tasks[u].pc # "idle"}) < MaxRaceOps
    /\ token \in DOMAIN redis.stok
    /\ \A u \in Tasks : tasks[u].pc # "idle" => tasks[u].token # token
    /\ tasks' = [tasks EXCEPT ![t] =
                    [pc |-> IF kind \in RaceFetching THEN "fetch" ELSE "handler",
                     kind |-> kind, token |-> token,
                     s |-> SessionsFetchByToken(redis, accounts, token),
                     match |-> None, matches |-> <<>>, taken |-> FALSE, err |-> FALSE]]
    /\ UNCHANGED <<redis, locks, accounts, clock, uuid, resp, hist>>

\* the handler up to the answer of its fetch_by_id or fetch_all
race_fetch(t) ==
    /\ tasks[t].pc = "fetch"
    /\ tasks' = [tasks EXCEPT ![t] =
          IF tasks[t].kind = "create_match"
          THEN [@ EXCEPT !.pc = "update", !.matches = MatchesFetchAll(redis)]
          ELSE IF ~Truthy(tasks[t].s.match) THEN [@ EXCEPT !.pc = "close"]
          ELSE IF MatchesFetchById(redis, tasks[t].s.match) = None
          THEN [@ EXCEPT !.pc = "close", !.err = TRUE]
          ELSE [@ EXCEPT !.pc = "update",
                         !.match = MatchesFetchById(redis, tasks[t].s.match)]]
    /\ UNCHANGED <<redis, locks, accounts, clock, uuid, resp, hist>>

RaceUpdated(t, x) ==
    CASE tasks[t].kind = "match_ready" ->
            MatchReadySet(x, tasks[t].match, get_slot_idx(tasks[t].match, x.s.id))
      [] tasks[t].kind = "missing_beatmap" ->
            MissingBeatmapSet(x, tasks[t].match, get_slot_idx(tasks[t].match, x.s.id))
      [] OTHER ->
            CreateMatchFrom(x, tasks[t].matches,
                            [name |-> RaceMatchName(tasks[t].token), password |-> "pw"])

\* the id CREATE_MATCH is about to write its match under is in the store
RaceTaken(t) ==
    /\ tasks[t].kind = "create_match"
    /\ tasks[t].matches # <<>>
    /\ MaxId(tasks[t].matches) + 1 \in DOMAIN redis.matches

\* the rest of the handler: the match it fetched is changed and written; for
\* a new match, whether its id was in the store when it was written is noted
race_update(t) ==
    /\ tasks[t].pc = "update"
    /\ \E x \in {RaceUpdated(t, RaceX(t))} :
          /\ redis' = x.r
          /\ accounts' = x.a
          /\ tasks' = [tasks EXCEPT ![t].pc = "close", ![t].s = x.s, ![t].err = x.err,
                                    ![t].taken = RaceTaken(t)]
    /\ UNCHANGED <<locks, clock, uuid, resp, hist>>

\* the session spectated is Al
RaceHandled(t, x) ==
    IF tasks[t].kind = "start_spectating" THEN start_spectating(x, 1)
    ELSE leave_lobby(x)

\* a handler that fetches no match
race_handler(t) ==
    /\ tasks[t].pc = "handler"
    /\ \E x \in {RaceHandled(t, RaceX(t))} :
          /\ redis' = x.r
          /\ accounts' = x.a
          /\ tasks' = [tasks EXCEPT ![t].pc = "close", ![t].s = x.s, ![t].err = x.err]
    /\ UNCHANGED <<locks, clock, uuid, resp, hist>>

\* lines 206-207: the session the request holds is written
race_close(t) ==
    /\ tasks[t].pc = "close"
    /\ \E x \in {PlayClose(RaceX(t), TRUE)} :
          /\ redis' = x.r
          /\ accounts' = x.a
          /\ resp' = [kind |-> "race", op |-> Op(tasks[t].kind, x.s.id, 0), err |-> x.err,
                      session |-> tasks[t].s, left |-> x.s, before |-> redis]
          /\ hist' = [hist EXCEPT !.log =
                         Append(@, [name |-> tasks[t].kind, by |-> x.s.id,
                                    arg |-> 0, was |-> tasks[t].s.match,
                                    now |-> x.s.match, err |-> x.err,
                                    taken |-> tasks[t].taken])]
    /\ tasks' = [tasks EXCEPT ![t] = Idle]
    /\ UNCHANGED <<locks, clock, uuid>>

NextRace ==
    \/ \E t \in Tasks, token \in RaceTokens, kind \in RaceFetching \cup RaceDirect :
          race_begin(t, token, kind)
    \/ \E t \in Tasks : race_fetch(t)
    \/ \E t \in Tasks : race_update(t)
    \/ \E t \in Tasks : race_handler(t)
    \/ \E t \in Tasks : race_close(t)

SpecRace == InitRace /\ [][NextRace]_vars

RaceIdle == \A t \in Tasks : tasks[t].pc = "idle"

RaceLogged(name, by) ==
    \E i \in 1..Len(hist.log) :
       hist.log[i].name = name /\ hist.log[i].by = by /\ ~hist.log[i].err

RaceSlot(id) == redis.matches[1].slots[get_slot_idx(redis.matches[1], id)]

\* C34: once MATCH_READY of Al and MATCH_NO_BEATMAP of Cy, both players of
\* match 1, have completed, however their steps interleaved, the persisted
\* match has Al's slot READY and Cy's slot NO_MAP.
C34_NoLostSlotUpdate ==
    (/\ RaceIdle
     /\ Len(hist.log) = 2
     /\ RaceLogged("match_ready", 1)
     /\ RaceLogged("missing_beatmap", 3)
     /\ \A i \in 1..2 : hist.log[i].was = 1
     /\ 1 \in DOMAIN redis.matches)
    => (RaceSlot(1).status = "READY" /\ RaceSlot(3).status = "NO_MAP")

\* C35: every CREATE_MATCH that completes has made a match, under an id that
\* no match of the store had when the new match was written.
C35_CreateMatchTakesFreshId ==
    \A i \in 1..Len(hist.log) :
       hist.log[i].name = "create_match" => (~hist.log[i].err /\ ~hist.log[i].taken)

\* the concurrent case alone: no CREATE_MATCH wrote its match under an id
\* that was in the store
RaceCreatesDiffer ==
    \A i \in 1..Len(hist.log) :
       hist.log[i].name = "create_match" => ~hist.log[i].taken

\* C37: once Cy's START_SPECTATING of Al has completed and every request has
\* finished its closing session write, Cy is among Al's persisted spectators.
C37_ForeignChangeSurvives ==
    (RaceIdle /\ RaceLogged("start_spectating", 3) /\ 1 \in DOMAIN redis.sid)
    => InSeq(3, redis.sid[1].spectators)

(***************************************************************************)
(* The named locks.  Every function that takes a RedisLock is written out  *)
(* as the list of its steps, in source order: the lock it takes, the Redis *)
(* commands of the block, the release at the end of the block, and what it *)
(* does after the block.  A step is [op, a, b].  Two coroutines run such   *)
(* functions one step at a time; a command may fail, and the block is then *)
(* left through the release.  Al is logged in.                             *)
(***************************************************************************)
MaxLockOps == 2     \* functions started in one behaviour

Step(op, a, b) == [op |-> op, a |-> a, b |-> b]

Locked(key, block) == <<Step("LOCK", key, 0)>> \o block \o <<Step("UNLOCK", key, 0)>>

\* usecases.sessions.enqueue_data and dequeue_data
enqueue_data_Steps(uid, data) ==
    Locked(LockKey("queues", uid), <<Step("APPEND", uid, data)>>)

dequeue_data_Steps(uid) ==
    Locked(LockKey("queues", uid),
           <<Step("GET", uid, 0), Step("DELETE", uid, 0)>>)

\* repositories.sessions.update, delete
SessionsUpdateSteps(session) ==
    Locked(LockKey("sessions", session.id),
           <<Step("HSET", 1, session), Step("HSET", 2, session), Step("HSET", 3, session)>>)
    \o <<Step("FETCH_ALL", <<user_stats(session), user_presence(session)>>, 0)>>

SessionListSteps(op, session) ==
    Locked(LockKey("session_list", 0), <<Step(op, session.id, 0)>>)

SessionsDeleteSteps(session) ==
    Locked(LockKey("sessions", session.id),
           <<Step("HDEL", 1, session), Step("HDEL", 2, session), Step("HDEL", 3, session)>>)
    \o SessionListSteps("LREM", session)

\* repositories.channels.update and delete
ChannelsUpdateSteps(channel) ==
    Locked(LockKey("channels", channel.name), <<Step("CHANNEL_HSET", channel, 0)>>)
    \o <<Step("SEND_INFO", <<channel_info(channel)>>, channel)>>

ChannelsDeleteSteps(channel) ==
    Locked(LockKey("channels", channel.name), <<Step("CHANNEL_HDEL", channel, 0)>>)

LockCalls == {"enqueue_data", "dequeue_data", "update", "delete",
              "channels_update", "channels_delete"}
LockUsers == {1}
LockData == <<<<"CHO_PONG", 0>>>>

StepsOf(call, id) ==
    CASE call = "enqueue_data" -> enqueue_data_Steps(id, LockData)
      [] call = "dequeue_data" -> dequeue_data_Steps(id)
      [] call = "update" -> SessionsUpdateSteps(SessionsFetchById(redis, accounts, id))
      [] call = "delete" -> SessionsDeleteSteps(SessionsFetchById(redis, accounts, id))
      [] call = "channels_update" -> ChannelsUpdateSteps(ChannelsFetchByName(redis, ChanOsu))
      [] OTHER -> ChannelsDeleteSteps(ChannelsFetchByName(redis, ChanOsu))

InitLocks == InitPlayAt(PlayLoginAl.r, PlayLoginAl.a)

Busy(t) == tasks[t].pc # "idle"

Held(t) == {l \in locks : l.owner = t}

NextStep(t) == Head(tasks[t].steps)

lock_call(t, call, id) ==
    /\ ~Busy(t)
    /\ Len(hist.log) + Cardinality({u \in Tasks : Busy(u)}) < MaxLockOps
    /\ call \in {"update", "delete"} => id \in DOMAIN redis.sid
    /\ call \in {"channels_update", "channels_delete"} =>
          (id = 1 /\ ChannelsFetchByName(redis, ChanOsu) # None)
    /\ tasks' = [tasks EXCEPT ![t] = [pc |-> "steps", call |-> call, id |-> id,
                                      steps |-> StepsOf(call, id), data |-> <<>>,
                                      err |-> FALSE]]
    /\ UNCHANGED <<redis, locks, accounts, clock, uuid, resp, hist>>

\* RedisLock.__aenter__: waits until nobody holds the key
lock_acquire(t) ==
    /\ Busy(t) /\ tasks[t].steps # <<>>
    /\ NextStep(t).op = "LOCK"
    /\ LockFree(NextStep(t).a)
    /\ locks' = LockAcquire(NextStep(t).a, t)
    /\ tasks' = [tasks EXCEPT ![t].steps = Tail(@)]
    /\ UNCHANGED <<redis, accounts, clock, uuid, resp, hist>>

Commands == {"APPEND", "GET", "DELETE", "HSET", "HDEL", "LREM",
             "CHANNEL_HSET", "CHANNEL_HDEL"}

Command(r, step) ==
    CASE step.op = "APPEND" -> EnqueueData(r, step.a, step.b)
      [] step.op = "DELETE" -> [r EXCEPT !.queues[step.a] = RedisDelete(@)]
      [] step.op = "HSET" -> IndexHSet(r, step.a, step.b)
      [] step.op = "HDEL" -> IndexHDel(r, step.a, step.b)
      [] step.op = "LREM" -> [r EXCEPT !.slist = ListRemoveAll(@, step.a)]
      [] step.op = "CHANNEL_HSET" -> [r EXCEPT !.channels = HSet(@, step.a.name, step.a)]
      [] step.op = "CHANNEL_HDEL" -> [r EXCEPT !.channels = HDel(@, step.a.name)]
      [] OTHER -> r

\* a return that jumps past the end of the function, the release included
AfterGetLeavingLocked(steps, redis_data) ==
    IF redis_data = <<>> THEN <<>> ELSE steps

\* dequeue_data: `if not redis_data: return data` leaves the block, which
\* releases the lock
AfterGet(steps, redis_data) ==
    IF redis_data = <<>> THEN Tail(steps) ELSE steps

lock_command(t) ==
    /\ Busy(t) /\ tasks[t].steps # <<>>
    /\ NextStep(t).op \in Commands
    /\ redis' = Command(redis, NextStep(t))
    /\ tasks' = [tasks EXCEPT ![t].steps =
                    IF NextStep(t).op = "GET"
                    THEN AfterGet(Tail(@), redis.queues[NextStep(t).a])
                    ELSE Tail(@),
                              ![t].data =
                    IF NextStep(t).op = "GET" THEN redis.queues[NextStep(t).a] ELSE @]
    /\ UNCHANGED <<locks, accounts, clock, uuid, resp, hist>>

\* a command raises inside the block: the block is left, the function ends
lock_raise(t) ==
    /\ Busy(t) /\ tasks[t].steps # <<>>
    /\ NextStep(t).op \in Commands
    /\ tasks' = [tasks EXCEPT ![t].steps =
                    [i \in 1..Cardinality(Held(t)) |->
                        Step("UNLOCK", (CHOOSE l \in Held(t) : TRUE).key, 0)],
                              ![t].err = TRUE]
    /\ UNCHANGED <<redis, locks, accounts, clock, uuid, resp, hist>>

\* who the packet goes to after the block: every session of fetch_all, or the
\* targets of repositories.channels.update
FanOutTargets(step) ==
    IF step.op = "FETCH_ALL" THEN SessionIds(SessionsFetchAll(redis, accounts))
    ELSE ChannelInfoTargets([r |-> redis, a |-> accounts], step.b)

RECURSIVE EnqueueEach(_, _)
EnqueueEach(ids, data) ==
    IF ids = <<>> THEN <<>>
    ELSE enqueue_data_Steps(Head(ids), data) \o EnqueueEach(Tail(ids), data)

\* fetch_all, then one enqueue_data per target
lock_fetch_all(t) ==
    /\ Busy(t) /\ tasks[t].steps # <<>>
    /\ NextStep(t).op \in {"FETCH_ALL", "SEND_INFO"}
    /\ tasks' = [tasks EXCEPT ![t].steps =
                    EnqueueEach(FanOutTargets(NextStep(t)), NextStep(t).a) \o Tail(@)]
    /\ UNCHANGED <<redis, locks, accounts, clock, uuid, resp, hist>>

\* RedisLock.__aexit__
lock_release(t) ==
    /\ Busy(t) /\ tasks[t].steps # <<>>
    /\ NextStep(t).op = "UNLOCK"
    /\ locks' = LockRelease(NextStep(t).a, t)
    /\ tasks' = [tasks EXCEPT ![t].steps = Tail(@)]
    /\ UNCHANGED <<redis, accounts, clock, uuid, resp, hist>>

lock_return(t) ==
    /\ Busy(t) /\ tasks[t].steps = <<>>
    /\ tasks' = [tasks EXCEPT ![t] = Idle]
    /\ hist' = [hist EXCEPT !.log = Append(@, tasks[t].err)]
    /\ UNCHANGED <<redis, locks, accounts, clock, uuid, resp>>

LockRun(t) ==
    \/ lock_acquire(t)
    \/ lock_command(t)
    \/ lock_raise(t)
    \/ lock_fetch_all(t)
    \/ lock_release(t)
    \/ lock_return(t)

NextLocks ==
    \/ \E t \in Tasks, call \in LockCalls, id \in LockUsers : lock_call(t, call, id)
    \/ \E t \in Tasks : lock_acquire(t)
    \/ \E t \in Tasks : lock_command(t)
    \/ \E t \in Tasks : lock_raise(t)
    \/ \E t \in Tasks : lock_fetch_all(t)
    \/ \E t \in Tasks : lock_release(t)
    \/ \E t \in Tasks : lock_return(t)

SpecLocks == InitLocks /\ [][NextLocks]_vars

\* the event loop runs every coroutine that can take a step
SpecLocksFair == SpecLocks /\ \A t \in Tasks : WF_vars(LockRun(t))

\* a coroutine waits for a lock that another coroutine holds
Waiting(t) ==
    /\ Busy(t) /\ tasks[t].steps # <<>>
    /\ NextStep(t).op = "LOCK"
    /\ ~LockFree(NextStep(t).a)

LockDiscipline ==
    /\ \A t \in Tasks : Cardinality(Held(t)) <= 1
    /\ \A t \in Tasks : ~Busy(t) => Held(t) = {}
    /\ \A t \in Tasks : (Busy(t) /\ tasks[t].steps # <<>> /\ NextStep(t).op = "LOCK")
                           => Held(t) = {}
    /\ \A l \in locks : Busy(l.owner) /\ ~Waiting(l.owner)
    /\ \E t \in Tasks : ~Waiting(t)

\* C36: a coroutine never holds two locks and never asks for a lock while it
\* holds one, a lock is held only inside a running block, some coroutine can
\* always take a step (no deadlock), and under fair scheduling every function
\* that was started returns.
C36_LocksReleasedAndOperationsComplete ==
    /\ []LockDiscipline
    /\ \A t \in Tasks : Busy(t) ~> ~Busy(t)

\* t2 waits for the lock t1 holds in the middle of its block
C36_Witness ==
    /\ Waiting("t2")
    /\ Held("t1") # {}
    /\ NextStep("t1").op \in Commands

(***************************************************************************)
(* Batches of two packets.  handle_packet_data runs the handlers of one    *)
(* request body in order on the same session object, and writes the        *)
(* session at the end unless one of the packets was a LOGOUT.              *)
(***************************************************************************)
MaxBatchOps == 2     \* requests in one behaviour

BatchPacket(name, arg) == [name |-> name, arg |-> arg]

BatchFirst == {BatchPacket("user_logout", 0), BatchPacket("join_lobby", 0)}

BatchSecond ==
    BatchFirst \cup {BatchPacket("join_channel", ChanOsu), BatchPacket("join_channel", ChanLobby),
                     BatchPacket("start_spectating", 1), BatchPacket("leave_lobby", 0)}

BatchTokens == 1..3

\* the handler of one packet; a packet that is not in the session's map is
\* not in the PacketArray
BatchHandle(x, packet, now) ==
    IF x.err THEN x
    ELSE CASE packet.name = "user_logout" -> PlayGate(x, TRUE, user_logout(x, <<>>, now))
           [] packet.name = "join_lobby" -> PlayGate(x, FALSE, join_lobby(x))
           [] packet.name = "leave_lobby" -> PlayGate(x, FALSE, leave_lobby(x))
           [] packet.name = "join_channel" ->
                 PlayGate(x, FALSE, join_channel(x, packet.arg))
           [] OTHER -> PlayGate(x, FALSE, start_spectating(x, packet.arg))

\* line 201-202
ShouldUpdate(packets) == \A i \in 1..Len(packets) : packets[i].name # "user_logout"

InitBatch == InitPlayAt(PlayLoginDi.r, PlayLoginDi.a)

batch_request(token, first, second) ==
    /\ Len(hist.log) < MaxBatchOps
    /\ token \in DOMAIN redis.stok
    /\ \E x0 \in {PlayEntry(redis, accounts, token)} :
       \E x1 \in {BatchHandle(x0, first, clock)} :
       \E x2 \in {BatchHandle(x1, second, clock)} :
       \E x \in {PlayClose(x2, ShouldUpdate(<<first, second>>))} :
          /\ redis' = x.r
          /\ accounts' = x.a
          /\ resp' = [kind |-> "batch2", op |-> Op(first.name, x0.s.id, second.name),
                      err |-> x.err, session |-> x0.s, left |-> x.s, before |-> x0.r,
                      mid |-> x1.r, packets |-> <<first, second>>]
          /\ hist' = [hist EXCEPT !.log =
                         Append(@, [name |-> first.name, by |-> x0.s.id, arg |-> second.name,
                                    was |-> x0.s.match, now |-> x.s.match, err |-> x.err])]
    /\ UNCHANGED <<locks, tasks, clock, uuid>>

NextBatch ==
    \E token \in BatchTokens, first \in BatchFirst, second \in BatchSecond :
       batch_request(token, first, second)

SpecBatch == InitBatch /\ [][NextBatch]_vars

\* a batch whose first packet was a LOGOUT that deleted the session
LoggedOutFirst ==
    /\ resp # None /\ resp.kind = "batch2"
    /\ ~resp.err
    /\ resp.packets[1].name = "user_logout"
    /\ resp.session.id \notin DOMAIN resp.mid.sid

Stored(r, session) ==
    \/ session.id \in DOMAIN r.sid
    \/ make_safe_name(session.name) \in DOMAIN r.sname
    \/ session.token \in DOMAIN r.stok
    \/ InSeq(session.id, r.slist)

MemberSomewhere(r, id) ==
    \E n \in DOMAIN r.channels : InSeq(id, r.channels[n].members)

QueuedSince(old, u) == SubSeq(redis.queues[u], Len(old.queues[u]) + 1, Len(redis.queues[u]))

PresenceSince(old, id) ==
    \E u \in DOMAIN redis.queues :
       \E i \in 1..Len(QueuedSince(old, u)) :
          QueuedSince(old, u)[i] = <<"CHO_USER_PRESENCE", id>>

\* C38: when the LOGOUT of a batch has deleted the session, the packet after
\* it puts the session into no store index, adds it to no channel's members
\* that it was not left in, and enqueues no presence of it.
C38_LogoutIsFinalInBatch ==
    LoggedOutFirst =>
       /\ ~Stored(redis, resp.session)
       /\ \A n \in DOMAIN redis.channels :
             InSeq(resp.session.id, redis.channels[n].members)
                => (n \in DOMAIN resp.mid.channels
                    /\ InSeq(resp.session.id, resp.mid.channels[n].members))
       /\ ~PresenceSince(resp.mid, resp.session.id)

\* the session a USER_PRESENCE or USER_STATS packet is about, or None
AboutSession(packet) ==
    CASE packet[1] = "CHO_USER_PRESENCE" -> packet[2]
      [] packet[1] = "CHO_USER_STATS" -> packet[2][1]
      [] OTHER -> NoneInt

\* C40: no request appends the USER_PRESENCE or USER_STATS of a session
\* without USER_PUBLIC to the queue of another session.
C40_RestrictedPresenceStaysPrivate ==
    (resp # None /\ resp.kind = "play") =>
       \A to \in DOMAIN redis.queues :
          \A i \in 1..Len(Added(to)) :
             (AboutSession(Added(to)[i]) # NoneInt /\ AboutSession(Added(to)[i]) # to)
                => HasPriv(accounts[AboutSession(Added(to)[i])].privileges, "USER_PUBLIC")

\* the channel names the persisted session of this id holds; none when the
\* session is not in the store
PersistedChannels(id) ==
    IF id \in DOMAIN redis.sid THEN redis.sid[id].channels ELSE <<>>

\* C39: after every completed request, a channel's name is in the persisted
\* session's channels exactly when the session's id is in the persisted
\* channel's members.
C39_MembershipOnBothSides ==
    \A id \in DOMAIN redis.queues :
       \A n \in DOMAIN redis.channels :
          InSeq(redis.channels[n].name, PersistedChannels(id))
             <=> InSeq(id, redis.channels[n].members)

====
